---- MODULE Spec2Model ----
(***************************************************************************)
(* Model of the Telegram command router (api/telegram-webhook.js).         *)
(*                                                                         *)
(* Text is a sequence of one-character strings, so that trimming, token    *)
(* splitting, lower-casing and JSON parsing are computed as the code       *)
(* computes them.  One invocation of the handler runs at a time; it is     *)
(* split at its await points (each outbound fetch), and the outcome of     *)
(* every outbound call is chosen by the environment.                       *)
(***************************************************************************)
EXTENDS Integers, Sequences, FiniteSets, TLC

\* ------------------------------------------------------------------ bounds
\* How many times the transport may redeliver one Update.
MaxRedeliveries == 2
\* invocations of the router writing the profile at the same time
NumWriters == 2
\* how many times the transport delivers an acknowledged Update again
MaxRepeats == 1

\* ------------------------------------------------------- program constants
MAX_LAST_LIMIT == 10

\* --------------------------------------------------------- text primitives
Whitespace == {" ", "\t", "\n", "\r"}

RECURSIVE TrimStart(_)
TrimStart(s) ==
  IF s # <<>> /\ Head(s) \in Whitespace THEN TrimStart(Tail(s)) ELSE s

RECURSIVE TrimEnd(_)
TrimEnd(s) ==
  IF s # <<>> /\ s[Len(s)] \in Whitespace
  THEN TrimEnd(SubSeq(s, 1, Len(s) - 1))
  ELSE s

\* String.prototype.trim
Trim(s) == TrimEnd(TrimStart(s))

\* String.prototype.startsWith
StartsWith(s, p) == Len(s) >= Len(p) /\ SubSeq(s, 1, Len(p)) = p

\* String.prototype.endsWith
EndsWith(s, p) == Len(s) >= Len(p) /\ SubSeq(s, Len(s) - Len(p) + 1, Len(s)) = p

\* s.slice(n)
Slice(s, n) == SubSeq(s, n + 1, Len(s))

UpperCase ==
  <<"A","B","C","D","E","F","G","H","I","J","K","L","M",
    "N","O","P","Q","R","S","T","U","V","W","X","Y","Z">>
LowerCase ==
  <<"a","b","c","d","e","f","g","h","i","j","k","l","m",
    "n","o","p","q","r","s","t","u","v","w","x","y","z">>
Letters == {UpperCase[i] : i \in 1..26} \cup {LowerCase[i] : i \in 1..26}

LowerChar(c) ==
  IF \E i \in 1..26 : UpperCase[i] = c
  THEN LowerCase[CHOOSE i \in 1..26 : UpperCase[i] = c]
  ELSE c

\* String.prototype.toLowerCase
ToLowerCase(s) == [i \in 1..Len(s) |-> LowerChar(s[i])]

\* text.split(/\s+/)[0] : the characters before the first whitespace run
RECURSIVE FirstToken(_)
FirstToken(s) ==
  IF s = <<>> \/ Head(s) \in Whitespace
  THEN <<>>
  ELSE <<Head(s)>> \o FirstToken(Tail(s))

\* the longest prefix of s made of characters outside the set stop
RECURSIVE TakeWhileNot(_, _)
TakeWhileNot(s, stop) ==
  IF s = <<>> \/ Head(s) \in stop
  THEN <<>>
  ELSE <<Head(s)>> \o TakeWhileNot(Tail(s), stop)

\* value.split(",")
RECURSIVE SplitComma(_)
SplitComma(s) ==
  LET first == TakeWhileNot(s, {","})
  IN  IF Len(first) = Len(s)
      THEN <<first>>
      ELSE <<first>> \o SplitComma(Slice(s, Len(first) + 1))

Digits == <<"0","1","2","3","4","5","6","7","8","9">>

RECURSIVE NatToString(_)
NatToString(n) ==
  IF n < 10
  THEN <<Digits[n + 1]>>
  ELSE NatToString(n \div 10) \o <<Digits[(n % 10) + 1]>>

\* String(n) for an integer n
IntToString(n) == IF n < 0 THEN <<"-">> \o NatToString(-n) ELSE NatToString(n)

\* ------------------------------------------------------------------- JSON
\* JSON values are tagged records.  The parser covers the JSON subset used by
\* the sample texts: objects, arrays, strings without escapes, integers
\* without fraction or exponent, and the literals null, true and false.
JNull == [t |-> "null"]
JBool(b) == [t |-> "bool", v |-> b]
JNum(n) == [t |-> "num", v |-> n]
JStr(s) == [t |-> "str", v |-> s]
JArr(items) == [t |-> "arr", v |-> items]
JObj(members) == [t |-> "obj", v |-> members]
\* the value undefined, which no JSON text denotes but a property read gives
JUndefined == [t |-> "undefined"]

JsonWhitespace == {" ", "\t", "\n", "\r"}
DigitSet == {Digits[i] : i \in 1..10}
DigitValue(c) == (CHOOSE i \in 1..10 : Digits[i] = c) - 1

RECURSIVE SkipWs(_)
SkipWs(s) == IF s # <<>> /\ Head(s) \in JsonWhitespace THEN SkipWs(Tail(s)) ELSE s

RECURSIVE TakeDigits(_)
TakeDigits(s) ==
  IF s # <<>> /\ Head(s) \in DigitSet
  THEN <<Head(s)>> \o TakeDigits(Tail(s))
  ELSE <<>>

RECURSIVE DigitsToNat(_)
DigitsToNat(d) ==
  IF d = <<>> THEN 0
  ELSE DigitsToNat(SubSeq(d, 1, Len(d) - 1)) * 10 + DigitValue(d[Len(d)])

JFail == [ok |-> FALSE, val |-> JNull, rest |-> <<>>]
JOk(v, rest) == [ok |-> TRUE, val |-> v, rest |-> rest]

\* s starts right after the opening quote
JsonParseString(s) ==
  LET body == TakeWhileNot(s, {"\""})
  IN  IF Len(body) = Len(s) \/ \E i \in 1..Len(body) : body[i] \in {"\n", "\t", "\r", "\\"}
      THEN JFail
      ELSE JOk(JStr(body), Slice(s, Len(body) + 1))

JsonParseNumber(s) ==
  LET neg    == s # <<>> /\ Head(s) = "-"
      t      == IF neg THEN Tail(s) ELSE s
      digits == TakeDigits(t)
      n      == DigitsToNat(digits)
  IN  IF digits = <<>> \/ (Len(digits) > 1 /\ Head(digits) = "0")
      THEN JFail
      ELSE JOk(JNum(IF neg THEN -n ELSE n), Slice(t, Len(digits)))

RECURSIVE JsonParseValue(_), JsonParseElements(_, _), JsonParseMembers(_, _)

JsonParseValue(s0) ==
  LET s == SkipWs(s0)
  IN  IF s = <<>> THEN JFail
      ELSE IF Head(s) = "{" THEN
             (IF SkipWs(Tail(s)) # <<>> /\ Head(SkipWs(Tail(s))) = "}"
              THEN JOk(JObj(<<>>), Tail(SkipWs(Tail(s))))
              ELSE JsonParseMembers(Tail(s), <<>>))
      ELSE IF Head(s) = "[" THEN
             (IF SkipWs(Tail(s)) # <<>> /\ Head(SkipWs(Tail(s))) = "]"
              THEN JOk(JArr(<<>>), Tail(SkipWs(Tail(s))))
              ELSE JsonParseElements(Tail(s), <<>>))
      ELSE IF Head(s) = "\"" THEN JsonParseString(Tail(s))
      ELSE IF Head(s) = "-" \/ Head(s) \in DigitSet THEN JsonParseNumber(s)
      ELSE IF StartsWith(s, <<"n","u","l","l">>) THEN JOk(JNull, Slice(s, 4))
      ELSE IF StartsWith(s, <<"t","r","u","e">>) THEN JOk(JBool(TRUE), Slice(s, 4))
      ELSE IF StartsWith(s, <<"f","a","l","s","e">>) THEN JOk(JBool(FALSE), Slice(s, 5))
      ELSE JFail

\* elements of an array; s starts at an element, acc holds the elements so far
JsonParseElements(s, acc) ==
  LET r    == JsonParseValue(s)
      rest == SkipWs(r.rest)
  IN  IF ~r.ok \/ rest = <<>> THEN JFail
      ELSE IF Head(rest) = "," THEN JsonParseElements(Tail(rest), Append(acc, r.val))
      ELSE IF Head(rest) = "]" THEN JOk(JArr(Append(acc, r.val)), Tail(rest))
      ELSE JFail

\* members of an object; s starts at a key, acc holds the members so far
JsonParseMembers(s, acc) ==
  LET s1 == SkipWs(s)
      k  == IF s1 # <<>> /\ Head(s1) = "\"" THEN JsonParseString(Tail(s1)) ELSE JFail
      s2 == SkipWs(k.rest)
      r  == IF k.ok /\ s2 # <<>> /\ Head(s2) = ":" THEN JsonParseValue(Tail(s2)) ELSE JFail
      rest == SkipWs(r.rest)
      m  == [k |-> k.val.v, val |-> r.val]
  IN  IF ~r.ok \/ rest = <<>> THEN JFail
      ELSE IF Head(rest) = "," THEN JsonParseMembers(Tail(rest), Append(acc, m))
      ELSE IF Head(rest) = "}" THEN JOk(JObj(Append(acc, m)), Tail(rest))
      ELSE JFail

\* JSON.parse(raw): ok = FALSE stands for the SyntaxError it throws
JsonParse(raw) ==
  LET r == JsonParseValue(raw)
  IN  IF r.ok /\ SkipWs(r.rest) = <<>> THEN r ELSE JFail

\* JavaScript truthiness of a parsed JSON value
Truthy(v) ==
  CASE v.t = "null" -> FALSE
    [] v.t = "undefined" -> FALSE
    [] v.t = "bool" -> v.v
    [] v.t = "num"  -> v.v # 0
    [] v.t = "str"  -> v.v # <<>>
    [] OTHER        -> TRUE

\* typeof v === "object" (null included, as in JavaScript)
TypeofObject(v) == v.t \in {"null", "arr", "obj"}

\* parsed.filter((item) => item && typeof item === "object")
RECURSIVE FilterObjects(_)
FilterObjects(items) ==
  IF items = <<>> THEN <<>>
  ELSE IF Truthy(Head(items)) /\ TypeofObject(Head(items))
       THEN <<Head(items)>> \o FilterObjects(Tail(items))
       ELSE FilterObjects(Tail(items))

\* ------------------------------------------------------ argument parsing
\* the character U+0060, which a TLA+ string literal cannot contain
Backtick == "backtick"
Fence == <<Backtick, Backtick, Backtick>>

RECURSIVE TakeLetters(_)
TakeLetters(s) ==
  IF s # <<>> /\ Head(s) \in Letters
  THEN <<Head(s)>> \o TakeLetters(Tail(s))
  ELSE <<>>

stripCodeFence(raw) ==
  LET text  == Trim(raw)
      \* text.replace(/^```[a-zA-Z]*\s*/, "")
      open  == Slice(text, 3)
      body  == TrimStart(Slice(open, Len(TakeLetters(open))))
      \* text.replace(/```$/, "")
      inner == IF EndsWith(body, Fence) THEN SubSeq(body, 1, Len(body) - 3) ELSE body
  IN  IF ~StartsWith(text, Fence) THEN text ELSE Trim(inner)

\* parseProductsArg accepting arrays only: a single object is not wrapped
parseProductsArg_arraysOnly(arg) ==
  LET raw    == stripCodeFence(arg)
      parsed == JsonParse(raw)
  IN  IF ~parsed.ok THEN [ok |-> FALSE, products |-> <<>>]
      ELSE IF parsed.val.t = "arr"
           THEN [ok |-> TRUE, products |-> FilterObjects(parsed.val.v)]
      ELSE [ok |-> TRUE, products |-> <<>>]

\* ok = FALSE stands for the exception thrown by JSON.parse
parseProductsArg(arg) ==
  LET raw    == stripCodeFence(arg)
      parsed == JsonParse(raw)
  IN  IF ~parsed.ok THEN [ok |-> FALSE, products |-> <<>>]
      ELSE IF parsed.val.t = "arr"
           THEN [ok |-> TRUE, products |-> FilterObjects(parsed.val.v)]
      ELSE IF Truthy(parsed.val) /\ TypeofObject(parsed.val)
           THEN [ok |-> TRUE, products |-> <<parsed.val>>]
      ELSE [ok |-> TRUE, products |-> <<>>]

\* the set built from value.split(",").map(trim).filter(Boolean)
\* the allowlist keeping its empty entries
parseAllowedChatIds_keepEmpty(value) ==
  LET items == SplitComma(value)
  IN  {Trim(items[i]) : i \in 1..Len(items)}

parseAllowedChatIds(value) ==
  LET items == SplitComma(value)
  IN  {Trim(items[i]) : i \in 1..Len(items)} \ {<<>>}

W_show         == <<"s","h","o","w">>
W_get          == <<"g","e","t">>
W_status       == <<"s","t","a","t","u","s">>
W_conservative == <<"c","o","n","s","e","r","v","a","t","i","v","e">>
W_balanced     == <<"b","a","l","a","n","c","e","d">>
W_aggressive   == <<"a","g","g","r","e","s","s","i","v","e">>
STRATEGY_PROFILES == {W_conservative, W_balanced, W_aggressive}

\* parseProfileArg without the membership check on the token
parseProfileArg_unvalidated(rawArg) ==
  LET raw   == ToLowerCase(Trim(rawArg))
      token == FirstToken(raw)
  IN  IF raw = <<>> \/ raw \in {W_show, W_get, W_status}
      THEN [mode |-> "show", value |-> <<>>]
      ELSE [mode |-> "set", value |-> token]

parseProfileArg(rawArg) ==
  LET raw   == ToLowerCase(Trim(rawArg))
      token == FirstToken(raw)
  IN  IF raw = <<>> \/ raw \in {W_show, W_get, W_status}
      THEN [mode |-> "show", value |-> <<>>]
      ELSE IF token \notin STRATEGY_PROFILES
           THEN [mode |-> "invalid", value |-> token]
           ELSE [mode |-> "set", value |-> token]

\* text.split(/\s+/)[0] || ""
commandTokenOf(text) == FirstToken(text)

\* the command name compared as it was typed
commandOf_caseSensitive(commandToken) ==
  LET name == TakeWhileNot(Slice(commandToken, 1), {"@"} \cup Whitespace)
  IN  IF StartsWith(commandToken, <<"/">>) /\ name # <<>>
      THEN name
      ELSE commandToken

\* commandToken.replace(/^\/([^@\s]+).*$/, "$1").toLowerCase()
commandOf(commandToken) ==
  LET name == TakeWhileNot(Slice(commandToken, 1), {"@"} \cup Whitespace)
  IN  IF StartsWith(commandToken, <<"/">>) /\ name # <<>>
      THEN ToLowerCase(name)
      ELSE ToLowerCase(commandToken)

\* text.slice(commandToken.length).trim()
argsOf(text) == Trim(Slice(text, Len(commandTokenOf(text))))

\* Number.parseInt(s, 10): nan = TRUE stands for NaN
parseInt(s) ==
  LET t      == TrimStart(s)
      signed == t # <<>> /\ Head(t) \in {"-", "+"}
      digits == TakeDigits(IF signed THEN Tail(t) ELSE t)
      n      == DigitsToNat(digits)
  IN  IF digits = <<>> THEN [nan |-> TRUE, value |-> 0]
      ELSE [nan |-> FALSE, value |-> IF signed /\ Head(t) = "-" THEN -n ELSE n]

Min(a, b) == IF a < b THEN a ELSE b
Max(a, b) == IF a > b THEN a ELSE b

\* the limit with the default taken for every falsy parse result:
\* Number.parseInt(args, 10) || 5
lastLimit_defaultOnZero(args) ==
  LET requested == parseInt(args)
  IN  IF ~requested.nan /\ requested.value # 0
      THEN Max(1, Min(requested.value, MAX_LAST_LIMIT))
      ELSE 5

\* the limit computed by the /last handler
lastLimit(args) ==
  LET requested == parseInt(IF args # <<>> THEN args ELSE <<"5">>)
  IN  IF ~requested.nan
      THEN Max(1, Min(requested.value, MAX_LAST_LIMIT))
      ELSE 5

\* value of process.env[name] after envOrDefault; <<>> stands for unset
envOrDefault(value, fallback) ==
  IF value = <<>> \/ Trim(value) = <<>> THEN fallback ELSE Trim(value)

\* ------------------------------------------------------------ sample data
W_start   == <<"s","t","a","r","t">>
W_help    == <<"h","e","l","p">>
W_id      == <<"i","d">>
W_rules   == <<"r","u","l","e","s">>
W_profile == <<"p","r","o","f","i","l","e">>
W_scan    == <<"s","c","a","n">>
W_smoke   == <<"s","m","o","k","e">>
W_last    == <<"l","a","s","t">>

Cmd(word) == <<"/">> \o word
CmdArg(word, arg) == <<"/">> \o word \o <<" ">> \o arg

\* {"t":1}
J_object   == <<"{", "\"", "t", "\"", ":", "1", "}">>
\* { }
J_emptyObject == <<"{", " ", "}">>
\* [{"t":1}, {"t":2}]
J_array2   == <<"[">> \o J_object \o <<",", " ", "{", "\"", "t", "\"", ":", "2", "}", "]">>
\* [1,null,{"t":1}]
J_mixed    == <<"[", "1", ",", "n", "u", "l", "l", ",">> \o J_object \o <<"]">>
\* ```json\n{"t":1}\n```
J_fenced   == Fence \o <<"j","s","o","n","\n">> \o J_object \o <<"\n">> \o Fence
\* {"t":1
J_broken   == <<"{", "\"", "t", "\"", ":", "1">>
\* [1,null]
J_noobject == <<"[", "1", ",", "n", "u", "l", "l", "]">>

CommandTexts ==
  { Cmd(W_start), Cmd(W_help), Cmd(W_id), Cmd(W_rules),
    <<" ">> \o Cmd(W_help) \o <<" ", "\n">>,
    Cmd(<<"H","E","L","P","@","b","o","t">>),
    Cmd(W_profile),
    CmdArg(W_profile, <<"S","h","o","w">>),
    CmdArg(W_profile, W_balanced),
    CmdArg(W_profile, <<"A","g","g","r","e","s","s","i","v","e"," ","n","o","w">>),
    CmdArg(W_profile, <<"b","o","g","u","s">>),
    CmdArg(W_profile, <<"B","a","l","a","n","c","e">>),
    Cmd(W_scan),
    CmdArg(W_scan, J_object),
    CmdArg(W_scan, J_emptyObject),
    CmdArg(W_scan, J_array2),
    CmdArg(W_scan, J_mixed),
    CmdArg(W_scan, J_fenced),
    CmdArg(W_scan, J_broken),
    CmdArg(W_scan, J_noobject),
    CmdArg(W_scan, <<"[", "]">>),
    CmdArg(W_scan, <<"5">>),
    CmdArg(W_scan, Fence),
    Cmd(W_smoke),
    CmdArg(W_smoke, J_object),
    Cmd(W_status),
    Cmd(W_last),
    CmdArg(W_last, <<"3">>),
    CmdArg(W_last, <<"0">>),
    CmdArg(W_last, <<"-","2">>),
    CmdArg(W_last, <<"9","9">>),
    CmdArg(W_last, <<"a","b","c">>),
    CmdArg(W_last, <<"7","x">>),
    <<"/","S","C","A","N","@","s","o","m","e","b","o","t"," ">> \o J_object,
    <<"/","L","a","s","t","@","B","o","t"," ","\n"," ","3">>,
    Cmd(<<"b","o","g","u","s">>),
    <<"/">>,
    <<"/","@","b","o","t">> }

PlainTexts == { <<>>, <<"h","e","l","l","o">>, <<"s","c","a","n"," ","/","x">> }

\* a value that is undefined in JavaScript is the empty tuple, a defined one
\* is a one-element tuple
Undefined == <<>>
Defined(v) == <<v>>

Update(kind, chat, from, text) ==
  [kind |-> kind, chat |-> chat, from |-> from, text |-> text]

\* a body that carries neither message nor edited_message
NoMessage == Update("none", Undefined, Undefined, <<>>)

Bodies ==
  {NoMessage}
  \cup {Update("message", Defined(c), Defined(999), t) :
          c \in {42, 123}, t \in CommandTexts \cup PlainTexts}
  \cup {Update("message", c, Defined(999), t) :
          c \in {Undefined, Defined(0)}, t \in {Cmd(W_help), <<"h","e","l","l","o">>}}
  \cup {Update("edited_message", Defined(c), u, t) :
          c \in {42, 123}, u \in {Undefined, Defined(0)},
          t \in {Cmd(W_status), CmdArg(W_scan, J_object)}}

Methods == {"POST", "GET"}
NoHeader == "undefined"
SecretHeaders == {NoHeader, "webhook_secret", "wrong"}

Requests ==
  [method : Methods, secretHeader : SecretHeaders, body : Bodies]

NoRequest == [method |-> "", secretHeader |-> NoHeader, body |-> NoMessage]

\* TELEGRAM_ALLOWED_CHAT_IDS: unset, "42", " 42 , 7,," and ", ,"
AllowedSamples ==
  { <<>>, <<"4","2">>, <<" ","4","2"," ",","," ","7",",",",">>, <<","," ",",">> }

\* process.env; "" and <<>> stand for an unset variable
AllEnvs ==
  [ TELEGRAM_WEBHOOK_SECRET_TOKEN : {"", "webhook_secret"},
    TELEGRAM_BOT_TOKEN            : {"", "token"},
    GITHUB_TOKEN                  : {"", "ghp_test"},
    GITHUB_OWNER                  : {"", "owner"},
    GITHUB_REPO                   : {"", "repo"},
    TELEGRAM_ALLOWED_CHAT_IDS     : AllowedSamples,
    STRATEGY_PROFILE              : { <<>>, <<" ","C","o","n","s","e","r","v","a","t","i","v","e">> } ]

MissingGithub(e) ==
  Cardinality({n \in {"GITHUB_TOKEN", "GITHUB_OWNER", "GITHUB_REPO"} : e[n] = ""})

\* the deployments explored: at most one dispatch parameter missing; the bot
\* credential and the profile default vary only where the dispatch
\* parameters are complete, the profile default only without an allowlist
Envs ==
  { e \in AllEnvs :
      /\ MissingGithub(e) <= 1
      /\ e.STRATEGY_PROFILE # <<>>
           => (MissingGithub(e) = 0 /\ e.TELEGRAM_ALLOWED_CHAT_IDS = <<>>)
      /\ e.TELEGRAM_BOT_TOKEN = ""
           => (MissingGithub(e) = 0 /\ e.STRATEGY_PROFILE = <<>>) }

\* ------------------------------------------------------------------ state
VARIABLES
  env,           \* process.env of the deployment
  remoteVar,     \* value of STRATEGY_PROFILE in the remote store, <<>> = absent
  req,           \* the request being handled
  pc,            \* position of the handler invocation
  calls,         \* outbound fetch calls of this invocation, in order
  res,           \* HTTP responses sent by this invocation, in order
  err,           \* message of the error caught by the top-level catch
  parsed,        \* result of parseProfileArg in the /profile handler
  current,       \* profile name computed by /profile show
  products,      \* products parsed by /scan (or the fixed /smoke list)
  limit,         \* limit computed by /last
  deliveries,    \* how many times the transport delivered this Update
  updDispatches, \* dispatch calls attempted for this Update, over all deliveries
  reached,       \* did a delivery of this Update reach the structural gate
  writers,       \* concurrent invocations running /profile <value>, by number
  applied,       \* the writers whose write the remote store applied, in order
  scanEnv,       \* process.env of the scan endpoint's deployment
  scanReq,       \* the request the scan endpoint is handling
  scanPc,        \* position of the scan endpoint's invocation
  scanCalls,     \* outbound fetch calls of that invocation, in order
  scanRes,       \* HTTP responses sent by that invocation, in order
  prev           \* the finished earlier invocations on the same Update, in order

vars == <<env, remoteVar, req, pc, calls, res, err, parsed, current, products,
          limit, deliveries, updDispatches, reached, writers, applied,
          scanEnv, scanReq, scanPc, scanCalls, scanRes, prev>>

\* everything of the single invocation but the remote variable
handlerVars == <<env, req, pc, calls, res, err, parsed, current, products,
                 limit, deliveries, updDispatches, reached>>
writerVars == <<writers, applied>>
triggerVars == <<scanEnv, scanReq, scanPc, scanCalls, scanRes>>
historyVars == <<prev>>

\* the scan endpoint before any request, in a deployment that sets nothing
NoScanEnv ==
  [SCAN_SECRET |-> <<>>, GITHUB_TOKEN |-> "", GITHUB_OWNER |-> "", GITHUB_REPO |-> ""]
NoScanRequest == [method |-> "", authorization |-> <<>>, body |-> JUndefined]
ScanIdle ==
  /\ scanReq = NoScanRequest
  /\ scanPc = "idle"
  /\ scanCalls = <<>>
  /\ scanRes = <<>>

Writers == 1..NumWriters
\* an invocation that has not started
IdleWriter == [pc |-> "idle", value |-> <<>>, calls |-> <<>>, err |-> ""]

locals == <<parsed, current, products, limit>>

NoParsed == [mode |-> "", value |-> <<>>]

Init ==
  /\ env \in Envs
  /\ remoteVar \in {<<>>, W_aggressive}
  /\ req = NoRequest
  /\ pc = "idle"
  /\ calls = <<>>
  /\ res = <<>>
  /\ err = ""
  /\ parsed = NoParsed
  /\ current = <<>>
  /\ products = <<>>
  /\ limit = 0
  /\ deliveries = 0
  /\ updDispatches = 0
  /\ reached = FALSE
  /\ writers = [i \in Writers |-> IdleWriter]
  /\ applied = <<>>
  /\ scanEnv = NoScanEnv
  /\ ScanIdle
  /\ prev = <<>>

\* ------------------------------------------------- request-derived values
message == req.body
chatId  == message.chat
userId  == message.from
\* (message?.text || "").trim()
text    == Trim(message.text)
\* !chatId : undefined or 0
Falsy(v) == v = Undefined \/ v[1] = 0

allowedChatIds == parseAllowedChatIds(env.TELEGRAM_ALLOWED_CHAT_IDS)
commandToken   == commandTokenOf(text)
command        == commandOf(commandToken)
args           == argsOf(text)
\* readiness looking at the token only
githubReady_tokenOnly ==
  env.GITHUB_TOKEN # ""
githubReady    ==
  env.GITHUB_TOKEN # "" /\ env.GITHUB_OWNER # "" /\ env.GITHUB_REPO # ""

\* String(chatId) and String(userId || "")
chatIdString == IntToString(chatId[1])
userIdString == IF Falsy(userId) THEN <<>> ELSE IntToString(userId[1])

\* ------------------------------------------------------- outbound calls
ReplyOutcomes    == {"ok", "http_error", "network_error"}
\* the dispatch is accepted, or answered 500 with an empty body, or answered
\* 422 with the body "Validation Failed", or the fetch fails
DispatchOutcomes == {"ok", "http_error", "http_422", "network_error"}

\* the fetch issued by sendTelegramMessage, with the outcome it met
SendCall(msg, outcome) ==
  [kind |-> "sendMessage", chat_id |-> chatId, text |-> msg, outcome |-> outcome]

\* the fetch issued by dispatchToGitHub
DispatchCall(payload, outcome) ==
  [kind |-> "dispatch", client_payload |-> payload, outcome |-> outcome]

\* the fetch issued by githubApiRequest on the variable resource
VariableCall(method, body, outcome) ==
  [kind |-> "variable", method |-> method, body |-> body, outcome |-> outcome]

\* the Error of a refused dispatch saying nothing of the response
ErrorMessage_responseHidden(api, outcome) ==
  IF outcome \in {"network_error", "lost_response"} THEN "fetch failed"
  ELSE CASE api = "sendMessage" -> "Telegram sendMessage failed: 500"
         [] api = "dispatch"    -> "GitHub dispatch failed"
         [] api = "read"        -> "GitHub variable read failed: 500"
         [] api = "update"      -> "GitHub variable update failed: 500"
         [] api = "create"      -> "GitHub variable create failed: 500"

\* message of the Error raised by a failed call
ErrorMessage(api, outcome) ==
  IF outcome \in {"network_error", "lost_response"} THEN "fetch failed"
  ELSE IF api = "dispatch" /\ outcome = "http_422"
  THEN "GitHub dispatch failed: 422 Validation Failed"
  ELSE CASE api = "sendMessage" -> "Telegram sendMessage failed: 500"
         [] api = "dispatch"    -> "GitHub dispatch failed: 500"
         [] api = "read"        -> "GitHub variable read failed: 500"
         [] api = "update"      -> "GitHub variable update failed: 500"
         [] api = "create"      -> "GitHub variable create failed: 500"

\* res.status(status).json(body); the handler returns
Respond(status, body) ==
  /\ res' = Append(res, [status |-> status, body |-> body])
  /\ pc' = "responded"

\* an error raised inside the try block reaches the catch branch
Throw(message_) ==
  /\ err' = message_
  /\ pc' = "catch"
  /\ res' = res

\* the reply sent best-effort: its failure is swallowed
ReplyAndAck_bestEffort(msg) ==
  \E outcome \in ReplyOutcomes :
    /\ calls' = Append(calls, SendCall(msg, outcome))
    /\ Respond(200, [ok |-> TRUE]) /\ err' = err

\* await sendTelegramMessage(...); return res.status(200).json({ ok: true })
ReplyAndAck(msg) ==
  \E outcome \in ReplyOutcomes :
    /\ calls' = Append(calls, SendCall(msg, outcome))
    /\ IF outcome = "ok"
       THEN Respond(200, [ok |-> TRUE]) /\ err' = err
       ELSE Throw(ErrorMessage("sendMessage", outcome))

\* dispatchToGitHub retrying once after a failed attempt
DispatchThen_retry(payload, next) ==
  \E outcome \in DispatchOutcomes, second \in DispatchOutcomes :
    /\ calls' = (IF outcome = "ok"
                 THEN Append(calls, DispatchCall(payload, outcome))
                 ELSE calls \o <<DispatchCall(payload, outcome), DispatchCall(payload, second)>>)
    /\ updDispatches' = updDispatches + (IF outcome = "ok" THEN 1 ELSE 2)
    /\ IF outcome = "ok" \/ second = "ok"
       THEN pc' = next /\ err' = err /\ res' = res
       ELSE Throw(ErrorMessage("dispatch", second))

\* dispatchToGitHub not raising on a failure: the handler goes on
DispatchThen_ignoreFailure(payload, next) ==
  \E outcome \in DispatchOutcomes :
    /\ calls' = Append(calls, DispatchCall(payload, outcome))
    /\ updDispatches' = updDispatches + 1
    /\ pc' = next /\ err' = err /\ res' = res

\* await dispatchToGitHub(...), then continue at next
DispatchThen(payload, next) ==
  \E outcome \in DispatchOutcomes :
    /\ calls' = Append(calls, DispatchCall(payload, outcome))
    /\ updDispatches' = updDispatches + 1
    /\ IF outcome = "ok"
       THEN pc' = next /\ err' = err /\ res' = res
       ELSE Throw(ErrorMessage("dispatch", outcome))

ConfigMissing == [msg |-> "Config mancante su Vercel: GITHUB_TOKEN/GITHUB_OWNER/GITHUB_REPO."]

\* ---------------------------------------------------------- the transport
IsFailure(status) == status < 200 \/ status > 299

\* the chat transport delivers a new Update
Deliver ==
  /\ pc = "idle"
  /\ \E r \in Requests : req' = r
  /\ pc' = "preRouting"
  /\ calls' = <<>>
  /\ res' = <<>>
  /\ err' = ""
  /\ parsed' = NoParsed
  /\ current' = <<>>
  /\ products' = <<>>
  /\ limit' = 0
  /\ deliveries' = 1
  /\ updDispatches' = 0
  /\ reached' = FALSE
  /\ UNCHANGED <<env, remoteVar>>
  /\ UNCHANGED <<writerVars, triggerVars, historyVars>>

\* the chat transport delivers the same Update again after a failure status
Redeliver ==
  /\ pc = "responded"
  /\ res # <<>>
  /\ IsFailure(res[Len(res)].status)
  /\ deliveries <= MaxRedeliveries
  /\ pc' = "preRouting"
  /\ calls' = <<>>
  /\ res' = <<>>
  /\ err' = ""
  /\ parsed' = NoParsed
  /\ current' = <<>>
  /\ products' = <<>>
  /\ limit' = 0
  /\ deliveries' = deliveries + 1
  /\ UNCHANGED <<env, remoteVar, req, updDispatches, reached>>
  /\ UNCHANGED <<writerVars, triggerVars, historyVars>>

\* the invocation is over: nothing of it is kept (no state is shared between
\* invocations), and the transport goes on to other Updates
Return ==
  /\ pc = "responded"
  /\ pc' = "idle"
  /\ req' = NoRequest
  /\ calls' = <<>>
  /\ res' = <<>>
  /\ err' = ""
  /\ parsed' = NoParsed
  /\ current' = <<>>
  /\ products' = <<>>
  /\ limit' = 0
  /\ deliveries' = 0
  /\ updDispatches' = 0
  /\ reached' = FALSE
  /\ UNCHANGED <<env, remoteVar>>
  /\ UNCHANGED <<writerVars, triggerVars, historyVars>>

\* ------------------------------------------------------------ the handler
\* the secret compared only when the request carries the header
PreRoutingGates_headerOptional ==
  /\ pc = "preRouting"
  /\ IF req.method # "POST"
     THEN Respond(405, [ok |-> FALSE, error |-> "Method not allowed"])
     ELSE IF env.TELEGRAM_WEBHOOK_SECRET_TOKEN # ""
             /\ req.secretHeader # NoHeader
             /\ req.secretHeader # env.TELEGRAM_WEBHOOK_SECRET_TOKEN
     THEN Respond(401, [ok |-> FALSE, error |-> "Invalid webhook secret"])
     ELSE IF env.TELEGRAM_BOT_TOKEN = ""
     THEN Respond(500, [ok |-> FALSE, error |-> "Missing env configuration"])
     ELSE pc' = "structural" /\ res' = res
  /\ UNCHANGED <<env, remoteVar, req, calls, err, locals, deliveries, updDispatches, reached>>
  /\ UNCHANGED <<writerVars, triggerVars, historyVars>>

\* the secret header compared also when no secret is configured
PreRoutingGates_secretRequired ==
  /\ pc = "preRouting"
  /\ IF req.method # "POST"
     THEN Respond(405, [ok |-> FALSE, error |-> "Method not allowed"])
     ELSE IF req.secretHeader = NoHeader
             \/ req.secretHeader # env.TELEGRAM_WEBHOOK_SECRET_TOKEN
     THEN Respond(401, [ok |-> FALSE, error |-> "Invalid webhook secret"])
     ELSE IF env.TELEGRAM_BOT_TOKEN = ""
     THEN Respond(500, [ok |-> FALSE, error |-> "Missing env configuration"])
     ELSE pc' = "structural" /\ res' = res
  /\ UNCHANGED <<env, remoteVar, req, calls, err, locals, deliveries, updDispatches, reached>>
  /\ UNCHANGED <<writerVars, triggerVars, historyVars>>

\* the bot credential checked before the webhook secret
PreRoutingGates_botFirst ==
  /\ pc = "preRouting"
  /\ IF req.method # "POST"
     THEN Respond(405, [ok |-> FALSE, error |-> "Method not allowed"])
     ELSE IF env.TELEGRAM_BOT_TOKEN = ""
     THEN Respond(500, [ok |-> FALSE, error |-> "Missing env configuration"])
     ELSE IF env.TELEGRAM_WEBHOOK_SECRET_TOKEN # ""
             /\ req.secretHeader # env.TELEGRAM_WEBHOOK_SECRET_TOKEN
     THEN Respond(401, [ok |-> FALSE, error |-> "Invalid webhook secret"])
     ELSE pc' = "structural" /\ res' = res
  /\ UNCHANGED <<env, remoteVar, req, calls, err, locals, deliveries, updDispatches, reached>>
  /\ UNCHANGED <<writerVars, triggerVars, historyVars>>

\* method check, webhook secret check, bot credential check
PreRoutingGates ==
  /\ pc = "preRouting"
  /\ IF req.method # "POST"
     THEN Respond(405, [ok |-> FALSE, error |-> "Method not allowed"])
     ELSE IF env.TELEGRAM_WEBHOOK_SECRET_TOKEN # ""
             /\ req.secretHeader # env.TELEGRAM_WEBHOOK_SECRET_TOKEN
     THEN Respond(401, [ok |-> FALSE, error |-> "Invalid webhook secret"])
     ELSE IF env.TELEGRAM_BOT_TOKEN = ""
     THEN Respond(500, [ok |-> FALSE, error |-> "Missing env configuration"])
     ELSE pc' = "structural" /\ res' = res
  /\ UNCHANGED <<env, remoteVar, req, calls, err, locals, deliveries, updDispatches, reached>>
  /\ UNCHANGED <<writerVars, triggerVars, historyVars>>

\* the structural gate looking at the chat id only
StructuralGate_chatOnly ==
  /\ pc = "structural"
  /\ reached' = TRUE
  /\ IF Falsy(chatId)
     THEN Respond(200, [ok |-> TRUE, ignored |-> TRUE])
     ELSE pc' = "authorization" /\ res' = res
  /\ UNCHANGED <<env, remoteVar, req, calls, err, locals, deliveries, updDispatches>>
  /\ UNCHANGED <<writerVars, triggerVars, historyVars>>

\* no chat id, or text that is not a command: ignored
StructuralGate ==
  /\ pc = "structural"
  /\ reached' = TRUE
  /\ IF Falsy(chatId) \/ ~StartsWith(text, <<"/">>)
     THEN Respond(200, [ok |-> TRUE, ignored |-> TRUE])
     ELSE pc' = "authorization" /\ res' = res
  /\ UNCHANGED <<env, remoteVar, req, calls, err, locals, deliveries, updDispatches>>
  /\ UNCHANGED <<writerVars, triggerVars, historyVars>>

\* the denial branch without its return: the command handler still runs
AuthorizationGate_noReturn ==
  /\ pc = "authorization"
  /\ IF allowedChatIds # {} /\ chatIdString \notin allowedChatIds
     THEN /\ \E outcome \in ReplyOutcomes :
               calls' = Append(calls, SendCall([msg |-> "Chat non autorizzata."], outcome))
          /\ pc' = "handler"
          /\ res' = res
     ELSE /\ pc' = "handler"
          /\ UNCHANGED <<calls, res>>
  /\ UNCHANGED <<env, remoteVar, req, err, locals, deliveries, updDispatches, reached>>
  /\ UNCHANGED <<writerVars, triggerVars, historyVars>>

\* the denial reply sent without its own try/catch, inside the handler's try
AuthorizationGate_unguarded ==
  /\ pc = "authorization"
  /\ IF allowedChatIds # {} /\ chatIdString \notin allowedChatIds
     THEN \E outcome \in ReplyOutcomes :
            /\ calls' = Append(calls, SendCall([msg |-> "Chat non autorizzata."], outcome))
            /\ IF outcome = "ok"
               THEN Respond(200, [ok |-> TRUE, denied |-> TRUE]) /\ err' = err
               ELSE Throw(ErrorMessage("sendMessage", outcome))
     ELSE /\ pc' = "handler"
          /\ UNCHANGED <<calls, res, err>>
  /\ UNCHANGED <<env, remoteVar, req, locals, deliveries, updDispatches, reached>>
  /\ UNCHANGED <<writerVars, triggerVars, historyVars>>

\* allowlist check; a chat outside a non-empty allowlist gets a best-effort
\* denial reply and the denied acknowledgment
AuthorizationGate ==
  /\ pc = "authorization"
  /\ IF allowedChatIds # {} /\ chatIdString \notin allowedChatIds
     THEN /\ \E outcome \in ReplyOutcomes :
               calls' = Append(calls, SendCall([msg |-> "Chat non autorizzata."], outcome))
          /\ Respond(200, [ok |-> TRUE, denied |-> TRUE])
     ELSE /\ pc' = "handler"
          /\ UNCHANGED <<calls, res>>
  /\ UNCHANGED <<env, remoteVar, req, err, locals, deliveries, updDispatches, reached>>
  /\ UNCHANGED <<writerVars, triggerVars, historyVars>>

commandHelpText == "Tech_Sniper_IT comandi: /start /help /id /rules /scan /smoke /status /last /profile"
rulesText == "Regole attive: ..."

K_title     == <<"t","i","t","l","e">>
K_price_eur == <<"p","r","i","c","e","_","e","u","r">>
K_category  == <<"c","a","t","e","g","o","r","y">>

\* the hard-coded product list of /smoke
SmokeProducts ==
  <<
    JObj(<<[k |-> K_title, val |-> JStr(<<"A","p","p","l","e"," ","i","P","h","o","n","e"," ","1","4"," ","1","2","8","G","B">>)],
          [k |-> K_price_eur, val |-> JNum(650)],
          [k |-> K_category, val |-> JStr(<<"a","p","p","l","e","_","p","h","o","n","e">>)]>>),
    JObj(<<[k |-> K_title, val |-> JStr(<<"A","p","p","l","e"," ","W","a","t","c","h"," ","U","l","t","r","a"," ","2"," ","G","P","S"," ","+"," ","C","e","l","l","u","l","a","r"," ","4","9","m","m">>)],
          [k |-> K_price_eur, val |-> JNum(750)],
          [k |-> K_category, val |-> JStr(<<"s","m","a","r","t","w","a","t","c","h">>)]>>),
    JObj(<<[k |-> K_title, val |-> JStr(<<"V","a","l","v","e"," ","S","t","e","a","m"," ","D","e","c","k"," ","O","L","E","D"," ","1","T","B">>)],
          [k |-> K_price_eur, val |-> JNum(420)],
          [k |-> K_category, val |-> JStr(<<"h","a","n","d","h","e","l","d","_","c","o","n","s","o","l","e">>)]>>) >>

KnownCommands ==
  {W_start, W_help, W_id, W_rules, W_profile, W_scan, W_smoke, W_status, W_last}

\* the payload naming the user where the chat belongs
BasePayload_userAsChat(cmd) ==
  [source |-> "telegram", command |-> cmd, chat_id |-> userIdString, user_id |-> userIdString]

\* fields common to every dispatch payload of the router
BasePayload(cmd) ==
  [source |-> "telegram", command |-> cmd, chat_id |-> chatIdString, user_id |-> userIdString]

CmdStart ==
  /\ pc = "handler" /\ command = W_start
  /\ ReplyAndAck([msg |-> "Bot operativo.", help |-> commandHelpText])
  /\ UNCHANGED <<env, remoteVar, req, locals, deliveries, updDispatches, reached>>
  /\ UNCHANGED <<writerVars, triggerVars, historyVars>>

CmdHelp ==
  /\ pc = "handler" /\ command = W_help
  /\ ReplyAndAck([msg |-> commandHelpText])
  /\ UNCHANGED <<env, remoteVar, req, locals, deliveries, updDispatches, reached>>
  /\ UNCHANGED <<writerVars, triggerVars, historyVars>>

\* /id answering only when the dispatch parameters are configured
CmdId_readinessGated ==
  /\ pc = "handler" /\ command = W_id
  /\ IF ~githubReady
     THEN ReplyAndAck(ConfigMissing)
     ELSE ReplyAndAck([msg |-> "chat_id:", value |-> chatId[1]])
  /\ UNCHANGED <<env, remoteVar, req, locals, deliveries, updDispatches, reached>>
  /\ UNCHANGED <<writerVars, triggerVars, historyVars>>

CmdId ==
  /\ pc = "handler" /\ command = W_id
  /\ ReplyAndAck([msg |-> "chat_id:", value |-> chatId[1]])
  /\ UNCHANGED <<env, remoteVar, req, locals, deliveries, updDispatches, reached>>
  /\ UNCHANGED <<writerVars, triggerVars, historyVars>>

CmdRules ==
  /\ pc = "handler" /\ command = W_rules
  /\ ReplyAndAck([msg |-> rulesText])
  /\ UNCHANGED <<env, remoteVar, req, locals, deliveries, updDispatches, reached>>
  /\ UNCHANGED <<writerVars, triggerVars, historyVars>>

\* outcomes the remote store can give to a GET of the variable
GetOutcomes ==
  (IF remoteVar = <<>> THEN {"404"} ELSE {"200"}) \cup {"http_error", "network_error"}

\* outcomes the remote store can give to a PATCH of the variable; with
\* "lost_response" the store applied the write and the fetch failed afterwards
PatchOutcomes ==
  (IF remoteVar = <<>> THEN {"404"} ELSE {"ok", "lost_response"})
    \cup {"http_error", "network_error"}

\* outcomes the remote store can give to a POST creating the variable
PostOutcomes ==
  (IF remoteVar = <<>> THEN {"ok", "lost_response"} ELSE {})
    \cup {"http_error", "network_error"}

VariableBody(value) == [name |-> "STRATEGY_PROFILE", value |-> value]

\* /profile with getGitHubVariable raising on 404 like any other failure
CmdProfile_404IsError ==
  /\ pc = "handler" /\ command = W_profile
  /\ LET p == parseProfileArg(args)
     IN  IF ~githubReady
         THEN /\ ReplyAndAck(ConfigMissing)
              /\ UNCHANGED <<parsed, current, remoteVar>>
         ELSE IF p.mode = "invalid"
         THEN /\ ReplyAndAck([msg |-> "Valore non valido. Usa: /profile conservative | balanced | aggressive"])
              /\ parsed' = p
              /\ UNCHANGED <<current, remoteVar>>
         ELSE IF p.mode = "show"
         THEN /\ parsed' = p
              /\ remoteVar' = remoteVar
              /\ \E outcome \in GetOutcomes :
                   /\ calls' = Append(calls, VariableCall("GET", <<>>, outcome))
                   /\ IF outcome \in {"200"}
                      THEN /\ current' = ToLowerCase(
                                  IF outcome = "200" /\ remoteVar # <<>>
                                  THEN remoteVar
                                  ELSE envOrDefault(env.STRATEGY_PROFILE, W_balanced))
                           /\ pc' = "profileShowReply"
                           /\ UNCHANGED <<res, err>>
                      ELSE /\ Throw(ErrorMessage("read", outcome))
                           /\ current' = current
         ELSE /\ parsed' = p
              /\ current' = current
              /\ \E outcome \in PatchOutcomes :
                   /\ calls' = Append(calls, VariableCall("PATCH", VariableBody(p.value), outcome))
                   /\ IF outcome = "ok"
                      THEN /\ remoteVar' = p.value
                           /\ pc' = "profileSetReply"
                           /\ UNCHANGED <<res, err>>
                      ELSE IF outcome = "404"
                      THEN /\ pc' = "upsertCreate"
                           /\ UNCHANGED <<res, err, remoteVar>>
                      ELSE /\ Throw(ErrorMessage("update", outcome))
                           /\ remoteVar' = (IF outcome = "lost_response"
                                            THEN p.value ELSE remoteVar)
  /\ UNCHANGED <<env, req, products, limit, deliveries, updDispatches, reached>>
  /\ UNCHANGED <<writerVars, triggerVars, historyVars>>

\* /profile with upsertGitHubVariable falling back to POST after any failed PATCH
CmdProfile_createOnAnyFailure ==
  /\ pc = "handler" /\ command = W_profile
  /\ LET p == parseProfileArg(args)
     IN  IF ~githubReady
         THEN /\ ReplyAndAck(ConfigMissing)
              /\ UNCHANGED <<parsed, current, remoteVar>>
         ELSE IF p.mode = "invalid"
         THEN /\ ReplyAndAck([msg |-> "Valore non valido. Usa: /profile conservative | balanced | aggressive"])
              /\ parsed' = p
              /\ UNCHANGED <<current, remoteVar>>
         ELSE IF p.mode = "show"
         THEN /\ parsed' = p
              /\ remoteVar' = remoteVar
              /\ \E outcome \in GetOutcomes :
                   /\ calls' = Append(calls, VariableCall("GET", <<>>, outcome))
                   /\ IF outcome \in {"200", "404"}
                      THEN /\ current' = ToLowerCase(
                                  IF outcome = "200" /\ remoteVar # <<>>
                                  THEN remoteVar
                                  ELSE envOrDefault(env.STRATEGY_PROFILE, W_balanced))
                           /\ pc' = "profileShowReply"
                           /\ UNCHANGED <<res, err>>
                      ELSE /\ Throw(ErrorMessage("read", outcome))
                           /\ current' = current
         ELSE /\ parsed' = p
              /\ current' = current
              /\ \E outcome \in PatchOutcomes :
                   /\ calls' = Append(calls, VariableCall("PATCH", VariableBody(p.value), outcome))
                   /\ IF outcome = "ok"
                      THEN /\ remoteVar' = p.value
                           /\ pc' = "profileSetReply"
                           /\ UNCHANGED <<res, err>>
                      ELSE IF outcome # "ok"
                      THEN /\ pc' = "upsertCreate"
                           /\ remoteVar' = (IF outcome = "lost_response"
                                            THEN p.value ELSE remoteVar)
                           /\ UNCHANGED <<res, err>>
                      ELSE /\ Throw(ErrorMessage("update", outcome))
                           /\ remoteVar' = (IF outcome = "lost_response"
                                            THEN p.value ELSE remoteVar)
  /\ UNCHANGED <<env, req, products, limit, deliveries, updDispatches, reached>>
  /\ UNCHANGED <<writerVars, triggerVars, historyVars>>

\* /profile up to its first outbound call: readiness, argument parsing, then
\* the GET of getGitHubVariable or the PATCH of upsertGitHubVariable
CmdProfile ==
  /\ pc = "handler" /\ command = W_profile
  /\ LET p == parseProfileArg(args)
     IN  IF ~githubReady
         THEN /\ ReplyAndAck(ConfigMissing)
              /\ UNCHANGED <<parsed, current, remoteVar>>
         ELSE IF p.mode = "invalid"
         THEN /\ ReplyAndAck([msg |-> "Valore non valido. Usa: /profile conservative | balanced | aggressive"])
              /\ parsed' = p
              /\ UNCHANGED <<current, remoteVar>>
         ELSE IF p.mode = "show"
         THEN /\ parsed' = p
              /\ remoteVar' = remoteVar
              /\ \E outcome \in GetOutcomes :
                   /\ calls' = Append(calls, VariableCall("GET", <<>>, outcome))
                   /\ IF outcome \in {"200", "404"}
                      THEN /\ current' = ToLowerCase(
                                  IF outcome = "200" /\ remoteVar # <<>>
                                  THEN remoteVar
                                  ELSE envOrDefault(env.STRATEGY_PROFILE, W_balanced))
                           /\ pc' = "profileShowReply"
                           /\ UNCHANGED <<res, err>>
                      ELSE /\ Throw(ErrorMessage("read", outcome))
                           /\ current' = current
         ELSE /\ parsed' = p
              /\ current' = current
              /\ \E outcome \in PatchOutcomes :
                   /\ calls' = Append(calls, VariableCall("PATCH", VariableBody(p.value), outcome))
                   /\ IF outcome = "ok"
                      THEN /\ remoteVar' = p.value
                           /\ pc' = "profileSetReply"
                           /\ UNCHANGED <<res, err>>
                      ELSE IF outcome = "404"
                      THEN /\ pc' = "upsertCreate"
                           /\ UNCHANGED <<res, err, remoteVar>>
                      ELSE /\ Throw(ErrorMessage("update", outcome))
                           /\ remoteVar' = (IF outcome = "lost_response"
                                            THEN p.value ELSE remoteVar)
  /\ UNCHANGED <<env, req, products, limit, deliveries, updDispatches, reached>>
  /\ UNCHANGED <<writerVars, triggerVars, historyVars>>

\* the POST-create without the check of its response
UpsertCreate_ignoreFailure ==
  /\ pc = "upsertCreate"
  /\ \E outcome \in PostOutcomes :
       /\ calls' = Append(calls, VariableCall("POST", VariableBody(parsed.value), outcome))
       /\ remoteVar' = (IF outcome \in {"ok", "lost_response"}
                        THEN parsed.value ELSE remoteVar)
       /\ pc' = "profileSetReply"
       /\ UNCHANGED <<res, err>>
  /\ UNCHANGED <<env, req, locals, deliveries, updDispatches, reached>>
  /\ UNCHANGED <<writerVars, triggerVars, historyVars>>

\* the POST-create sending the argument as typed instead of the parsed value
UpsertCreate_rawArgument ==
  /\ pc = "upsertCreate"
  /\ \E outcome \in PostOutcomes :
       /\ calls' = Append(calls, VariableCall("POST", VariableBody(args), outcome))
       /\ IF outcome = "ok"
          THEN /\ remoteVar' = args
               /\ pc' = "profileSetReply"
               /\ UNCHANGED <<res, err>>
          ELSE /\ Throw(ErrorMessage("create", outcome))
               /\ remoteVar' = (IF outcome = "lost_response"
                                THEN args ELSE remoteVar)
  /\ UNCHANGED <<env, req, locals, deliveries, updDispatches, reached>>
  /\ UNCHANGED <<writerVars, triggerVars, historyVars>>

\* the POST-create fallback of upsertGitHubVariable after a PATCH 404
UpsertCreate ==
  /\ pc = "upsertCreate"
  /\ \E outcome \in PostOutcomes :
       /\ calls' = Append(calls, VariableCall("POST", VariableBody(parsed.value), outcome))
       /\ IF outcome = "ok"
          THEN /\ remoteVar' = parsed.value
               /\ pc' = "profileSetReply"
               /\ UNCHANGED <<res, err>>
          ELSE /\ Throw(ErrorMessage("create", outcome))
               /\ remoteVar' = (IF outcome = "lost_response"
                                THEN parsed.value ELSE remoteVar)
  /\ UNCHANGED <<env, req, locals, deliveries, updDispatches, reached>>
  /\ UNCHANGED <<writerVars, triggerVars, historyVars>>

ProfileShowReply ==
  /\ pc = "profileShowReply"
  /\ ReplyAndAck([msg |-> "Profilo strategia attivo:", value |-> current])
  /\ UNCHANGED <<env, remoteVar, req, locals, deliveries, updDispatches, reached>>
  /\ UNCHANGED <<writerVars, triggerVars, historyVars>>

ProfileSetReply ==
  /\ pc = "profileSetReply"
  /\ ReplyAndAck([msg |-> "Profilo strategia aggiornato a", value |-> parsed.value])
  /\ UNCHANGED <<env, remoteVar, req, locals, deliveries, updDispatches, reached>>
  /\ UNCHANGED <<writerVars, triggerVars, historyVars>>

\* /scan without the check for an empty product list
CmdScan_noEmptyCheck ==
  /\ pc = "handler" /\ command = W_scan
  /\ LET r == parseProductsArg(args)
     IN  IF ~githubReady
         THEN /\ ReplyAndAck(ConfigMissing)
              /\ UNCHANGED <<products, updDispatches>>
         ELSE IF args # <<>> /\ ~r.ok
         THEN /\ ReplyAndAck([msg |-> "JSON non valido. Invia un oggetto o array JSON."])
              /\ UNCHANGED <<products, updDispatches>>
         ELSE /\ products' = (IF args # <<>> THEN Defined(r.products) ELSE Undefined)
              /\ DispatchThen(
                   IF args # <<>>
                   THEN [products |-> r.products] @@ BasePayload("scan")
                   ELSE BasePayload("scan"),
                   "scanConfirm")
  /\ UNCHANGED <<env, remoteVar, req, parsed, current, limit, deliveries, reached>>
  /\ UNCHANGED <<writerVars, triggerVars, historyVars>>

\* /scan up to its first outbound call: readiness, argument parsing, dispatch
CmdScan ==
  /\ pc = "handler" /\ command = W_scan
  /\ LET r == parseProductsArg(args)
     IN  IF ~githubReady
         THEN /\ ReplyAndAck(ConfigMissing)
              /\ UNCHANGED <<products, updDispatches>>
         ELSE IF args # <<>> /\ ~r.ok
         THEN /\ ReplyAndAck([msg |-> "JSON non valido. Invia un oggetto o array JSON."])
              /\ UNCHANGED <<products, updDispatches>>
         ELSE IF args # <<>> /\ r.products = <<>>
         THEN /\ ReplyAndAck([msg |-> "Payload vuoto: nessun prodotto valido."])
              /\ products' = Defined(r.products)
              /\ UNCHANGED updDispatches
         ELSE /\ products' = (IF args # <<>> THEN Defined(r.products) ELSE Undefined)
              /\ DispatchThen(
                   IF args # <<>>
                   THEN [products |-> r.products] @@ BasePayload("scan")
                   ELSE BasePayload("scan"),
                   "scanConfirm")
  /\ UNCHANGED <<env, remoteVar, req, parsed, current, limit, deliveries, reached>>
  /\ UNCHANGED <<writerVars, triggerVars, historyVars>>

ScanConfirm ==
  /\ pc = "scanConfirm"
  /\ IF products # Undefined
     THEN ReplyAndAck([msg |-> "Scan accodato su GitHub Actions (n prodotti).",
                       count |-> Len(products[1])])
     ELSE ReplyAndAck([msg |-> "Scan accodato su GitHub Actions (modalita default)."])
  /\ UNCHANGED <<env, remoteVar, req, locals, deliveries, updDispatches, reached>>
  /\ UNCHANGED <<writerVars, triggerVars, historyVars>>

\* /smoke taking its products from the argument when one is given
CmdSmoke_usesArgument ==
  /\ pc = "handler" /\ command = W_smoke
  /\ LET r == parseProductsArg(args)
         list == IF args # <<>> /\ r.ok THEN r.products ELSE SmokeProducts
     IN  IF ~githubReady
         THEN /\ ReplyAndAck(ConfigMissing)
              /\ UNCHANGED <<products, updDispatches>>
         ELSE /\ products' = Defined(list)
              /\ DispatchThen(
                   [mode |-> "smoke", products |-> list] @@ BasePayload("scan"),
                   "smokeConfirm")
  /\ UNCHANGED <<env, remoteVar, req, parsed, current, limit, deliveries, reached>>
  /\ UNCHANGED <<writerVars, triggerVars, historyVars>>

CmdSmoke ==
  /\ pc = "handler" /\ command = W_smoke
  /\ IF ~githubReady
     THEN /\ ReplyAndAck(ConfigMissing)
          /\ UNCHANGED <<products, updDispatches>>
     ELSE /\ products' = Defined(SmokeProducts)
          /\ DispatchThen(
               [mode |-> "smoke", products |-> SmokeProducts] @@ BasePayload("scan"),
               "smokeConfirm")
  /\ UNCHANGED <<env, remoteVar, req, parsed, current, limit, deliveries, reached>>
  /\ UNCHANGED <<writerVars, triggerVars, historyVars>>

SmokeConfirm ==
  /\ pc = "smokeConfirm"
  /\ ReplyAndAck([msg |-> "Smoke test accodato su GitHub Actions (n prodotti).",
                  count |-> Len(products[1])])
  /\ UNCHANGED <<env, remoteVar, req, locals, deliveries, updDispatches, reached>>
  /\ UNCHANGED <<writerVars, triggerVars, historyVars>>

\* /status skipping the dispatch when an earlier delivery of the Update made one
CmdStatus_deduplicated ==
  /\ pc = "handler" /\ command = W_status
  /\ IF ~githubReady
     THEN /\ ReplyAndAck(ConfigMissing)
          /\ UNCHANGED updDispatches
     ELSE IF updDispatches > 0
     THEN /\ ReplyAndAck([msg |-> "Richiesta status accodata su GitHub Actions."])
          /\ UNCHANGED updDispatches
     ELSE DispatchThen(BasePayload("status"), "statusConfirm")
  /\ UNCHANGED <<env, remoteVar, req, locals, deliveries, reached>>
  /\ UNCHANGED <<writerVars, triggerVars, historyVars>>

CmdStatus ==
  /\ pc = "handler" /\ command = W_status
  /\ IF ~githubReady
     THEN /\ ReplyAndAck(ConfigMissing)
          /\ UNCHANGED updDispatches
     ELSE DispatchThen(BasePayload("status"), "statusConfirm")
  /\ UNCHANGED <<env, remoteVar, req, locals, deliveries, reached>>
  /\ UNCHANGED <<writerVars, triggerVars, historyVars>>

StatusConfirm ==
  /\ pc = "statusConfirm"
  /\ ReplyAndAck([msg |-> "Richiesta status accodata su GitHub Actions."])
  /\ UNCHANGED <<env, remoteVar, req, locals, deliveries, updDispatches, reached>>
  /\ UNCHANGED <<writerVars, triggerVars, historyVars>>

CmdLast ==
  /\ pc = "handler" /\ command = W_last
  /\ IF ~githubReady
     THEN /\ ReplyAndAck(ConfigMissing)
          /\ UNCHANGED <<limit, updDispatches>>
     ELSE /\ limit' = lastLimit(args)
          /\ DispatchThen([limit |-> lastLimit(args)] @@ BasePayload("last"), "lastConfirm")
  /\ UNCHANGED <<env, remoteVar, req, parsed, current, products, deliveries, reached>>
  /\ UNCHANGED <<writerVars, triggerVars, historyVars>>

LastConfirm ==
  /\ pc = "lastConfirm"
  /\ ReplyAndAck([msg |-> "Richiesta ultime opportunita (n) accodata su GitHub Actions.",
                  count |-> limit])
  /\ UNCHANGED <<env, remoteVar, req, locals, deliveries, updDispatches, reached>>
  /\ UNCHANGED <<writerVars, triggerVars, historyVars>>

\* an unknown command acknowledged without a reply
CmdUnknown_silent ==
  /\ pc = "handler" /\ command \notin KnownCommands
  /\ Respond(200, [ok |-> TRUE])
  /\ UNCHANGED <<calls, err>>
  /\ UNCHANGED <<env, remoteVar, req, locals, deliveries, updDispatches, reached>>
  /\ UNCHANGED <<writerVars, triggerVars, historyVars>>

\* no handler matched: fall through to the "not recognized" reply
CmdUnknown ==
  /\ pc = "handler" /\ command \notin KnownCommands
  /\ ReplyAndAck([msg |-> "Comando non riconosciuto.", help |-> commandHelpText])
  /\ UNCHANGED <<env, remoteVar, req, locals, deliveries, updDispatches, reached>>
  /\ UNCHANGED <<writerVars, triggerVars, historyVars>>

\* the catch branch answering 500, as an API error
CatchBranch_status500 ==
  /\ pc = "catch"
  /\ \E outcome \in ReplyOutcomes :
       calls' = Append(calls, SendCall([msg |-> "Errore comando:", details |-> err], outcome))
  /\ Respond(500, [ok |-> FALSE, error |-> err])
  /\ UNCHANGED <<env, remoteVar, req, err, locals, deliveries, updDispatches, reached>>
  /\ UNCHANGED <<writerVars, triggerVars, historyVars>>

\* the catch branch answering 500 only when the error reply fails as well
CatchBranch_status500IfReplyFails ==
  /\ pc = "catch"
  /\ \E outcome \in ReplyOutcomes :
       /\ calls' = Append(calls, SendCall([msg |-> "Errore comando:", details |-> err], outcome))
       /\ Respond(IF outcome = "ok" THEN 200 ELSE 500, [ok |-> FALSE, error |-> err])
  /\ UNCHANGED <<env, remoteVar, req, err, locals, deliveries, updDispatches, reached>>
  /\ UNCHANGED <<writerVars, triggerVars, historyVars>>

\* the catch branch without the error reply
CatchBranch_noReply ==
  /\ pc = "catch"
  /\ calls' = calls
  /\ Respond(200, [ok |-> FALSE, error |-> err])
  /\ UNCHANGED <<env, remoteVar, req, err, locals, deliveries, updDispatches, reached>>
  /\ UNCHANGED <<writerVars, triggerVars, historyVars>>

\* the error reply sent without its own try/catch: when it fails the handler
\* rejects and no response is sent
CatchBranch_unguarded ==
  /\ pc = "catch"
  /\ \E outcome \in ReplyOutcomes :
       /\ calls' = Append(calls, SendCall([msg |-> "Errore comando:", details |-> err], outcome))
       /\ IF outcome = "ok"
          THEN Respond(200, [ok |-> FALSE, error |-> err])
          ELSE pc' = "responded" /\ res' = res
  /\ UNCHANGED <<env, remoteVar, req, err, locals, deliveries, updDispatches, reached>>
  /\ UNCHANGED <<writerVars, triggerVars, historyVars>>

\* the top-level catch: best-effort error reply, then acknowledge with 200
CatchBranch ==
  /\ pc = "catch"
  /\ \E outcome \in ReplyOutcomes :
       calls' = Append(calls, SendCall([msg |-> "Errore comando:", details |-> err], outcome))
  /\ Respond(200, [ok |-> FALSE, error |-> err])
  /\ UNCHANGED <<env, remoteVar, req, err, locals, deliveries, updDispatches, reached>>
  /\ UNCHANGED <<writerVars, triggerVars, historyVars>>

Next ==
  \/ Deliver
  \/ Redeliver
  \/ Return
  \/ PreRoutingGates
  \/ StructuralGate
  \/ AuthorizationGate
  \/ CmdStart
  \/ CmdHelp
  \/ CmdId
  \/ CmdRules
  \/ CmdProfile
  \/ UpsertCreate
  \/ ProfileShowReply
  \/ ProfileSetReply
  \/ CmdScan
  \/ ScanConfirm
  \/ CmdSmoke
  \/ SmokeConfirm
  \/ CmdStatus
  \/ StatusConfirm
  \/ CmdLast
  \/ LastConfirm
  \/ CmdUnknown
  \/ CatchBranch

Spec == Init /\ [][Next]_vars

\* ------------------------------------------- concurrent profile writes
\* Several invocations run /profile <value> at the same time against the one
\* remote variable. Each is the handler past its gates with the dispatch
\* parameters configured; the remote store answers each call by its state at
\* the moment the call arrives.

\* the handler reaches upsertGitHubVariable with a value of the profile set
WriterStart(i) ==
  /\ writers[i].pc = "idle"
  /\ \E v \in STRATEGY_PROFILES :
       writers' = [writers EXCEPT ![i] = [IdleWriter EXCEPT !.pc = "patch", !.value = v]]
  /\ UNCHANGED <<remoteVar, applied>>
  /\ UNCHANGED handlerVars
  /\ UNCHANGED <<triggerVars, historyVars>>

\* the PATCH of upsertGitHubVariable: applied when the variable exists,
\* answered 404 when it does not
WriterPatch(i) ==
  /\ writers[i].pc = "patch"
  /\ LET w == writers[i]
         outcome == IF remoteVar = <<>> THEN "404" ELSE "ok"
         call == VariableCall("PATCH", VariableBody(w.value), outcome)
     IN  IF outcome = "ok"
         THEN /\ remoteVar' = w.value
              /\ applied' = Append(applied, i)
              /\ writers' = [writers EXCEPT ![i].pc = "returned",
                                            ![i].calls = Append(w.calls, call)]
         ELSE /\ writers' = [writers EXCEPT ![i].pc = "create",
                                            ![i].calls = Append(w.calls, call)]
              /\ UNCHANGED <<remoteVar, applied>>
  /\ UNCHANGED handlerVars
  /\ UNCHANGED <<triggerVars, historyVars>>

\* the POST-create carrying the default profile instead of the requested one
WriterCreate_defaultValue(i) ==
  /\ writers[i].pc = "create"
  /\ LET w == writers[i]
         outcome == IF remoteVar = <<>> THEN "ok" ELSE "http_error"
         call == VariableCall("POST", VariableBody(W_balanced), outcome)
     IN  IF outcome = "ok"
         THEN /\ remoteVar' = W_balanced
              /\ applied' = Append(applied, i)
              /\ writers' = [writers EXCEPT ![i].pc = "returned",
                                            ![i].calls = Append(w.calls, call)]
         ELSE /\ writers' = [writers EXCEPT ![i].pc = "raised",
                                            ![i].calls = Append(w.calls, call),
                                            ![i].err = ErrorMessage("create", outcome)]
              /\ UNCHANGED <<remoteVar, applied>>
  /\ UNCHANGED handlerVars
  /\ UNCHANGED <<triggerVars, historyVars>>

\* the POST-create after a PATCH 404: applied when the variable is still
\* absent, refused when another write created it in the meantime
WriterCreate(i) ==
  /\ writers[i].pc = "create"
  /\ LET w == writers[i]
         outcome == IF remoteVar = <<>> THEN "ok" ELSE "http_error"
         call == VariableCall("POST", VariableBody(w.value), outcome)
     IN  IF outcome = "ok"
         THEN /\ remoteVar' = w.value
              /\ applied' = Append(applied, i)
              /\ writers' = [writers EXCEPT ![i].pc = "returned",
                                            ![i].calls = Append(w.calls, call)]
         ELSE /\ writers' = [writers EXCEPT ![i].pc = "raised",
                                            ![i].calls = Append(w.calls, call),
                                            ![i].err = ErrorMessage("create", outcome)]
              /\ UNCHANGED <<remoteVar, applied>>
  /\ UNCHANGED handlerVars
  /\ UNCHANGED <<triggerVars, historyVars>>

\* a deployment with every parameter set and no allowlist
WriterEnv ==
  [ TELEGRAM_WEBHOOK_SECRET_TOKEN |-> "webhook_secret",
    TELEGRAM_BOT_TOKEN            |-> "token",
    GITHUB_TOKEN                  |-> "ghp_test",
    GITHUB_OWNER                  |-> "owner",
    GITHUB_REPO                   |-> "repo",
    TELEGRAM_ALLOWED_CHAT_IDS     |-> <<>>,
    STRATEGY_PROFILE              |-> <<>> ]

InitWriters ==
  /\ Init
  /\ env = WriterEnv

NextWriters ==
  \/ \E i \in Writers : WriterStart(i)
  \/ \E i \in Writers : WriterPatch(i)
  \/ \E i \in Writers : WriterCreate(i)

SpecWriters == InitWriters /\ [][NextWriters]_vars

\* ------------------------------------------------- repeated deliveries
\* One Update delivered more than once although each delivery was answered:
\* the acknowledgement did not reach the transport. Every delivery is a new
\* invocation of the handler; the module keeps nothing between invocations
\* (its top level holds constants and functions only), so an invocation starts
\* from the request, process.env and nothing else.
RepeatEnvs ==
  { WriterEnv, [WriterEnv EXCEPT !.TELEGRAM_ALLOWED_CHAT_IDS = <<"4","2">>] }

\* the transport delivers the same Update again; what the finished invocation
\* did is history
DeliverAgain ==
  /\ pc = "responded"
  /\ Len(prev) < MaxRepeats
  /\ prev' = Append(prev, [calls |-> calls, res |-> res])
  /\ pc' = "preRouting"
  /\ calls' = <<>>
  /\ res' = <<>>
  /\ err' = ""
  /\ parsed' = NoParsed
  /\ current' = <<>>
  /\ products' = <<>>
  /\ limit' = 0
  /\ deliveries' = deliveries + 1
  /\ UNCHANGED <<env, remoteVar, req, updDispatches, reached>>
  /\ UNCHANGED <<writerVars, triggerVars>>

InitRepeat ==
  /\ Init
  /\ env \in RepeatEnvs

NextRepeat ==
  \/ Deliver
  \/ DeliverAgain
  \/ PreRoutingGates
  \/ StructuralGate
  \/ AuthorizationGate
  \/ CmdStart
  \/ CmdHelp
  \/ CmdId
  \/ CmdRules
  \/ CmdProfile
  \/ UpsertCreate
  \/ ProfileShowReply
  \/ ProfileSetReply
  \/ CmdScan
  \/ ScanConfirm
  \/ CmdSmoke
  \/ SmokeConfirm
  \/ CmdStatus
  \/ StatusConfirm
  \/ CmdLast
  \/ LastConfirm
  \/ CmdUnknown
  \/ CatchBranch

SpecRepeat == InitRepeat /\ [][NextRepeat]_vars

\* ------------------------------------------------ direct trigger endpoint
\* The scan endpoint: its revision with the product normalizer, and the
\* revision kept in src/api/scan.js.

K_products == <<"p","r","o","d","u","c","t","s">>
K_price    == <<"p","r","i","c","e">>

\* candidate.key : undefined unless candidate is an object holding the key
GetField(v, key) ==
  IF v.t = "obj" /\ \E i \in DOMAIN v.v : v.v[i].k = key
  THEN v.v[CHOOSE i \in DOMAIN v.v :
              v.v[i].k = key /\ \A j \in DOMAIN v.v : v.v[j].k = key => i <= j].val
  ELSE JUndefined

\* { ...members, key: val } : an existing key keeps its place, a new one is last
SetField(members, key, val) ==
  IF \E i \in DOMAIN members : members[i].k = key
  THEN [i \in DOMAIN members |->
          IF members[i].k = key THEN [k |-> key, val |-> val] ELSE members[i]]
  ELSE Append(members, [k |-> key, val |-> val])

NotANumber == [kind |-> "nan", v |-> 0]
Infinite   == [kind |-> "inf", v |-> 0]
Finite(n)  == [kind |-> "num", v |-> n]

\* Number(string) for strings of an optional sign and decimal digits, the
\* empty string, and Infinity; every other string here is not a number
StringToNumber(str) ==
  LET t      == Trim(str)
      signed == t # <<>> /\ Head(t) \in {"-", "+"}
      body   == IF signed THEN Tail(t) ELSE t
      n      == DigitsToNat(body)
  IN  IF t = <<>> THEN Finite(0)
      ELSE IF body = <<"I","n","f","i","n","i","t","y">> THEN Infinite
      ELSE IF body # <<>> /\ TakeDigits(body) = body
      THEN Finite(IF signed /\ Head(t) = "-" THEN -n ELSE n)
      ELSE NotANumber

\* Number(value)
ToNumber(v) ==
  CASE v.t = "num"       -> Finite(v.v)
    [] v.t = "str"       -> StringToNumber(v.v)
    [] v.t = "bool"      -> Finite(IF v.v THEN 1 ELSE 0)
    [] v.t = "null"      -> Finite(0)
    [] v.t = "arr"       -> IF v.v = <<>> THEN Finite(0) ELSE NotANumber
    [] OTHER             -> NotANumber

\* candidate.price_eur ?? candidate.price
PriceRaw(candidate) ==
  LET first == GetField(candidate, K_price_eur)
  IN  IF first.t \in {"undefined", "null"} THEN GetField(candidate, K_price) ELSE first

\* the normalizer building its result from the title and the price alone
normalize_fieldsDropped(candidate) ==
  IF ~Truthy(candidate) \/ ~TypeofObject(candidate)
  THEN JNull
  ELSE LET given == GetField(candidate, K_title)
           title == IF given.t = "str" THEN Trim(given.v) ELSE <<>>
           price == ToNumber(PriceRaw(candidate))
       IN  IF title = <<>> \/ price.kind # "num" \/ price.v <= 0
           THEN JNull
           ELSE JObj(<<[k |-> K_title, val |-> JStr(title)],
                       [k |-> K_price_eur, val |-> JNum(price.v)]>>)

\* the normalizer keeping the title as it was given
normalize_untrimmedTitle(candidate) ==
  IF ~Truthy(candidate) \/ ~TypeofObject(candidate)
  THEN JNull
  ELSE LET given == GetField(candidate, K_title)
           title == IF given.t = "str" THEN Trim(given.v) ELSE <<>>
           price == ToNumber(PriceRaw(candidate))
       IN  IF title = <<>> \/ price.kind # "num" \/ price.v <= 0
           THEN JNull
           ELSE JObj(SetField(candidate.v, K_price_eur, JNum(price.v)))

\* the normalizer taking zero for a valid price
normalize_zeroAllowed(candidate) ==
  IF ~Truthy(candidate) \/ ~TypeofObject(candidate)
  THEN JNull
  ELSE LET given == GetField(candidate, K_title)
           title == IF given.t = "str" THEN Trim(given.v) ELSE <<>>
           price == ToNumber(PriceRaw(candidate))
       IN  IF title = <<>> \/ price.kind # "num" \/ price.v < 0
           THEN JNull
           ELSE JObj(SetField(SetField(candidate.v, K_title, JStr(title)),
                              K_price_eur, JNum(price.v)))

\* normalize of parseProducts: null, or the candidate with its title trimmed
\* and price_eur set to the coerced price
normalize(candidate) ==
  IF ~Truthy(candidate) \/ ~TypeofObject(candidate)
  THEN JNull
  ELSE LET given == GetField(candidate, K_title)
           title == IF given.t = "str" THEN Trim(given.v) ELSE <<>>
           price == ToNumber(PriceRaw(candidate))
       IN  IF title = <<>> \/ price.kind # "num" \/ price.v <= 0
           THEN JNull
           ELSE JObj(SetField(SetField(candidate.v, K_title, JStr(title)),
                              K_price_eur, JNum(price.v)))

\* value.map((item) => normalize(item)).filter(Boolean)
RECURSIVE NormalizeAll(_)
NormalizeAll(items) ==
  IF items = <<>> THEN <<>>
  ELSE LET n == normalize(Head(items))
       IN  (IF n = JNull THEN <<>> ELSE <<n>>) \o NormalizeAll(Tail(items))

\* normalized ? [normalized] : []
OneOrNone(n) == IF n = JNull THEN <<>> ELSE <<n>>

\* parseProducts of the revision with the normalizer
parseProducts(payload) ==
  LET value == GetField(payload, K_products)
  IN  IF value.t = "arr" THEN NormalizeAll(value.v)
      ELSE IF Truthy(value) /\ TypeofObject(value) THEN OneOrNone(normalize(value))
      ELSE IF Truthy(payload) /\ TypeofObject(payload) /\ Truthy(GetField(payload, K_title))
      THEN OneOrNone(normalize(payload))
      ELSE <<>>

\* parseProducts of src/api/scan.js: objects are passed on as they are
legacyParseProducts(payload) ==
  LET value == GetField(payload, K_products)
  IN  IF value.t = "arr" THEN FilterObjects(value.v)
      ELSE IF Truthy(value) /\ TypeofObject(value) THEN <<value>>
      ELSE IF Truthy(payload) /\ TypeofObject(payload) /\ Truthy(GetField(payload, K_title))
      THEN <<payload>>
      ELSE <<>>

\* --- sample products and bodies, as the objects the platform parsed
F(key, val) == [k |-> key, val |-> val]
S_A == <<"A">>
\* {"title":"A","price_eur":5,"category":"c"}
P_valid       == JObj(<<F(K_title, JStr(S_A)), F(K_price_eur, JNum(5)), F(K_category, JStr(<<"c">>))>>)
\* {"title":" A ","price":"7"}
P_padded      == JObj(<<F(K_title, JStr(<<" ","A"," ">>)), F(K_price, JStr(<<"7">>))>>)
\* {"title":"A"}
P_titleOnly   == JObj(<<F(K_title, JStr(S_A))>>)
\* {"title":"A","price_eur":0}
P_zero        == JObj(<<F(K_title, JStr(S_A)), F(K_price_eur, JNum(0))>>)
\* {"title":"A","price_eur":-3}
P_negative    == JObj(<<F(K_title, JStr(S_A)), F(K_price_eur, JNum(-3))>>)
\* {"title":"  ","price_eur":5}
P_blankTitle  == JObj(<<F(K_title, JStr(<<" "," ">>)), F(K_price_eur, JNum(5))>>)
\* {"title":5,"price_eur":5}
P_numberTitle == JObj(<<F(K_title, JNum(5)), F(K_price_eur, JNum(5))>>)
\* {"title":"A","price_eur":"abc"}
P_wordPrice   == JObj(<<F(K_title, JStr(S_A)), F(K_price_eur, JStr(<<"a","b","c">>))>>)
\* {"title":"A","price_eur":"Infinity"}
P_infinite    == JObj(<<F(K_title, JStr(S_A)), F(K_price_eur, JStr(<<"I","n","f","i","n","i","t","y">>))>>)
\* {"price_eur":null,"title":"A","price":9}
P_nullPrice   == JObj(<<F(K_price_eur, JNull), F(K_title, JStr(S_A)), F(K_price, JNum(9))>>)

Body(value) == JObj(<<F(K_products, value)>>)

TriggerBodies ==
  { JUndefined,
    JObj(<<>>),
    JStr(<<"x">>),
    JObj(<<F(K_category, JStr(<<"c">>))>>),
    Body(JArr(<<>>)),
    Body(JArr(<<P_titleOnly>>)),
    Body(JArr(<<P_valid>>)),
    Body(JArr(<<P_zero, P_padded, JNum(1), JNull, P_valid, P_wordPrice>>)),
    Body(JArr(<<P_zero, P_infinite, P_numberTitle, P_negative, P_blankTitle>>)),
    Body(P_padded),
    Body(P_blankTitle),
    Body(JNum(3)),
    P_nullPrice,
    P_titleOnly }

Bearer == <<"B","e","a","r","e","r"," ">>
\* req.headers.authorization || "" : the empty tuple is the absent header
AuthHeaders ==
  { <<>>,
    Bearer \o <<"k","1">>,
    Bearer \o <<" ","k","1"," ">>,
    Bearer \o <<"k","2">>,
    <<"b","e","a","r","e","r"," ","k","1">>,
    <<"k","1">>,
    Bearer,
    Bearer \o <<" "," ">> }

ScanRequests == [method : Methods, authorization : AuthHeaders, body : TriggerBodies]

\* SCAN_SECRET unset, blank, "k1" and " k1 "; at most one dispatch parameter
\* missing
ScanEnvs ==
  { e \in [ SCAN_SECRET  : { <<>>, <<" "," ">>, <<"k","1">>, <<" ","k","1"," ">> },
            GITHUB_TOKEN : {"", "ghp_test"},
            GITHUB_OWNER : {"", "owner"},
            GITHUB_REPO  : {"", "repo"} ] :
      Cardinality({n \in {"GITHUB_TOKEN", "GITHUB_OWNER", "GITHUB_REPO"} : e[n] = ""}) <= 1 }

\* res.status(status).json(body); the scan handler returns
ScanRespond(status, body) ==
  /\ scanRes' = Append(scanRes, [status |-> status, body |-> body])
  /\ scanPc' = "responded"

\* a client sends a request to the scan endpoint
ScanDeliver ==
  /\ scanPc = "idle"
  /\ \E r \in ScanRequests : scanReq' = r
  /\ scanPc' = "received"
  /\ scanCalls' = <<>>
  /\ scanRes' = <<>>
  /\ UNCHANGED <<scanEnv, remoteVar, handlerVars, writerVars, historyVars>>

\* the invocation is over and nothing of it is kept
ScanReturn ==
  /\ scanPc = "responded"
  /\ scanReq' = NoScanRequest
  /\ scanPc' = "idle"
  /\ scanCalls' = <<>>
  /\ scanRes' = <<>>
  /\ UNCHANGED <<scanEnv, remoteVar, handlerVars, writerVars, historyVars>>

\* the scan handler acknowledging a failed dispatch with 200, as the router does
ScanDispatch_acknowledgeFailure(list) ==
  \E outcome \in DispatchOutcomes :
    /\ scanCalls' = Append(scanCalls,
         DispatchCall([source |-> "vercel_scan_api", command |-> "scan", products |-> list],
                      outcome))
    /\ IF outcome = "ok"
       THEN ScanRespond(202, [ok |-> TRUE, queued |-> TRUE, product_count |-> Len(list)])
       ELSE ScanRespond(200, [ok |-> FALSE, error |-> ErrorMessage("dispatch", outcome)])

\* the dispatch of the scan handler and the response that follows it
ScanDispatch(list) ==
  \E outcome \in DispatchOutcomes :
    /\ scanCalls' = Append(scanCalls,
         DispatchCall([source |-> "vercel_scan_api", command |-> "scan", products |-> list],
                      outcome))
    /\ IF outcome = "ok"
       THEN ScanRespond(202, [ok |-> TRUE, queued |-> TRUE, product_count |-> Len(list)])
       ELSE ScanRespond(500, [ok |-> FALSE, error |-> ErrorMessage("dispatch", outcome)])

\* the scan handler comparing the header with the secret as configured, untrimmed
ScanHandler_untrimmedSecret ==
  /\ scanPc = "received"
  /\ LET list == parseProducts(IF Truthy(scanReq.body) THEN scanReq.body ELSE JObj(<<>>))
     IN  IF scanReq.method # "POST"
         THEN ScanRespond(405, [ok |-> FALSE, error |-> "Method not allowed"])
              /\ scanCalls' = scanCalls
         ELSE IF Trim(scanEnv.SCAN_SECRET) = <<>>
         THEN ScanRespond(500, [ok |-> FALSE, error |-> "Missing env configuration: SCAN_SECRET"])
              /\ scanCalls' = scanCalls
         ELSE IF scanReq.authorization # Bearer \o scanEnv.SCAN_SECRET
         THEN ScanRespond(401, [ok |-> FALSE, error |-> "Unauthorized"])
              /\ scanCalls' = scanCalls
         ELSE IF scanEnv.GITHUB_TOKEN = "" \/ scanEnv.GITHUB_OWNER = "" \/ scanEnv.GITHUB_REPO = ""
         THEN ScanRespond(500, [ok |-> FALSE, error |-> "Missing env configuration"])
              /\ scanCalls' = scanCalls
         ELSE IF list = <<>>
         THEN ScanRespond(400, [ok |-> FALSE, error |-> "No valid products supplied"])
              /\ scanCalls' = scanCalls
         ELSE ScanDispatch(list)
  /\ UNCHANGED <<scanEnv, scanReq, remoteVar, handlerVars, writerVars, historyVars>>

\* the scan handler examining the products before the dispatch parameters
ScanHandler_productsFirst ==
  /\ scanPc = "received"
  /\ LET list == parseProducts(IF Truthy(scanReq.body) THEN scanReq.body ELSE JObj(<<>>))
     IN  IF scanReq.method # "POST"
         THEN ScanRespond(405, [ok |-> FALSE, error |-> "Method not allowed"])
              /\ scanCalls' = scanCalls
         ELSE IF Trim(scanEnv.SCAN_SECRET) = <<>>
         THEN ScanRespond(500, [ok |-> FALSE, error |-> "Missing env configuration: SCAN_SECRET"])
              /\ scanCalls' = scanCalls
         ELSE IF scanReq.authorization # Bearer \o Trim(scanEnv.SCAN_SECRET)
         THEN ScanRespond(401, [ok |-> FALSE, error |-> "Unauthorized"])
              /\ scanCalls' = scanCalls
         ELSE IF list = <<>>
         THEN ScanRespond(400, [ok |-> FALSE, error |-> "No valid products supplied"])
              /\ scanCalls' = scanCalls
         ELSE IF scanEnv.GITHUB_TOKEN = "" \/ scanEnv.GITHUB_OWNER = "" \/ scanEnv.GITHUB_REPO = ""
         THEN ScanRespond(500, [ok |-> FALSE, error |-> "Missing env configuration"])
              /\ scanCalls' = scanCalls
         ELSE ScanDispatch(list)
  /\ UNCHANGED <<scanEnv, scanReq, remoteVar, handlerVars, writerVars, historyVars>>

\* the scan handler of the revision with the normalizer
ScanHandler ==
  /\ scanPc = "received"
  /\ LET list == parseProducts(IF Truthy(scanReq.body) THEN scanReq.body ELSE JObj(<<>>))
     IN  IF scanReq.method # "POST"
         THEN ScanRespond(405, [ok |-> FALSE, error |-> "Method not allowed"])
              /\ scanCalls' = scanCalls
         ELSE IF Trim(scanEnv.SCAN_SECRET) = <<>>
         THEN ScanRespond(500, [ok |-> FALSE, error |-> "Missing env configuration: SCAN_SECRET"])
              /\ scanCalls' = scanCalls
         ELSE IF scanReq.authorization # Bearer \o Trim(scanEnv.SCAN_SECRET)
         THEN ScanRespond(401, [ok |-> FALSE, error |-> "Unauthorized"])
              /\ scanCalls' = scanCalls
         ELSE IF scanEnv.GITHUB_TOKEN = "" \/ scanEnv.GITHUB_OWNER = "" \/ scanEnv.GITHUB_REPO = ""
         THEN ScanRespond(500, [ok |-> FALSE, error |-> "Missing env configuration"])
              /\ scanCalls' = scanCalls
         ELSE IF list = <<>>
         THEN ScanRespond(400, [ok |-> FALSE, error |-> "No valid products supplied"])
              /\ scanCalls' = scanCalls
         ELSE ScanDispatch(list)
  /\ UNCHANGED <<scanEnv, scanReq, remoteVar, handlerVars, writerVars, historyVars>>

\* the scan handler of src/api/scan.js: the secret is compared only when it
\* is set, and products are not normalized
LegacyScanHandler ==
  /\ scanPc = "received"
  /\ LET list == legacyParseProducts(IF Truthy(scanReq.body) THEN scanReq.body ELSE JObj(<<>>))
     IN  IF scanReq.method # "POST"
         THEN ScanRespond(405, [ok |-> FALSE, error |-> "Method not allowed"])
              /\ scanCalls' = scanCalls
         ELSE IF scanEnv.SCAN_SECRET # <<>>
                 /\ scanReq.authorization # Bearer \o scanEnv.SCAN_SECRET
         THEN ScanRespond(401, [ok |-> FALSE, error |-> "Unauthorized"])
              /\ scanCalls' = scanCalls
         ELSE IF scanEnv.GITHUB_TOKEN = "" \/ scanEnv.GITHUB_OWNER = "" \/ scanEnv.GITHUB_REPO = ""
         THEN ScanRespond(500, [ok |-> FALSE, error |-> "Missing env configuration"])
              /\ scanCalls' = scanCalls
         ELSE IF list = <<>>
         THEN ScanRespond(400, [ok |-> FALSE, error |-> "No valid products supplied"])
              /\ scanCalls' = scanCalls
         ELSE ScanDispatch(list)
  /\ UNCHANGED <<scanEnv, scanReq, remoteVar, handlerVars, writerVars, historyVars>>

\* the router idle, in a complete deployment, next to the scan endpoint
InitTrigger ==
  /\ env = WriterEnv
  /\ remoteVar = <<>>
  /\ req = NoRequest
  /\ pc = "idle"
  /\ calls = <<>>
  /\ res = <<>>
  /\ err = ""
  /\ parsed = NoParsed
  /\ current = <<>>
  /\ products = <<>>
  /\ limit = 0
  /\ deliveries = 0
  /\ updDispatches = 0
  /\ reached = FALSE
  /\ writers = [i \in Writers |-> IdleWriter]
  /\ applied = <<>>
  /\ scanEnv \in ScanEnvs
  /\ ScanIdle
  /\ prev = <<>>

NextTrigger ==
  \/ ScanDeliver
  \/ ScanHandler
  \/ ScanReturn

SpecTrigger == InitTrigger /\ [][NextTrigger]_vars

NextLegacyTrigger ==
  \/ ScanDeliver
  \/ LegacyScanHandler
  \/ ScanReturn

SpecLegacyTrigger == InitTrigger /\ [][NextLegacyTrigger]_vars

\* ---------------------------------------------------- vocabulary of claims
\* What the request and the configuration say, read off the inputs only.
IsPost   == req.method = "POST"
SecretOk ==
  \/ env.TELEGRAM_WEBHOOK_SECRET_TOKEN = ""
  \/ req.secretHeader = env.TELEGRAM_WEBHOOK_SECRET_TOKEN
BotOk    == env.TELEGRAM_BOT_TOKEN # ""
PassedPreRouting == IsPost /\ SecretOk /\ BotOk

HasChat == req.body.chat # Undefined /\ req.body.chat[1] # 0
IsCommandText ==
  LET t == TrimStart(req.body.text) IN t # <<>> /\ Head(t) = "/"
Ignorable == ~(HasChat /\ IsCommandText)

\* the allowlist each sample configuration string stands for
AllowlistOf(raw) ==
  CASE raw = <<"4","2">> -> {42}
    [] raw = <<" ","4","2"," ",","," ","7",",",",">> -> {42, 7}
    [] OTHER -> {}
Authorized ==
  \/ AllowlistOf(env.TELEGRAM_ALLOWED_CHAT_IDS) = {}
  \/ req.body.chat[1] \in AllowlistOf(env.TELEGRAM_ALLOWED_CHAT_IDS)

CallsOfKind(k) == {i \in DOMAIN calls : calls[i].kind = k}
IsDenialReply(c) == c.kind = "sendMessage" /\ c.text.msg = "Chat non autorizzata."
IsErrorReply(c)  == c.kind = "sendMessage" /\ c.text.msg = "Errore comando:"
Succeeded(c)     == c.outcome \in {"ok", "200", "404"}
\* calls made by a command handler inside the try block that raised
RaisedCalls ==
  {i \in DOMAIN calls :
     ~IsDenialReply(calls[i]) /\ ~IsErrorReply(calls[i]) /\ ~Succeeded(calls[i])}
\* the message of the error a failed call raises
RaisedMessage(c) ==
  ErrorMessage(
    IF c.kind = "variable"
    THEN (CASE c.method = "GET" -> "read" [] c.method = "PATCH" -> "update" [] OTHER -> "create")
    ELSE c.kind,
    c.outcome)

\* ------------------------------------------------------------------ claims

Thm_C2_SecretMismatchRejected ==
  (IsPost /\ ~SecretOk) =>
     /\ calls = <<>>
     /\ pc \in {"preRouting", "responded"}
     /\ pc = "responded" =>
          /\ Len(res) = 1
          /\ res[1].status = 401
          /\ res[1].body.ok = FALSE

\* a well-formed /scan from an allowed chat, rejected for an absent header
Wit_C2_ScanRejected ==
  /\ pc = "responded" /\ IsPost /\ ~SecretOk
  /\ req.secretHeader = NoHeader
  /\ req.body.text = CmdArg(W_scan, J_object)
  /\ env.TELEGRAM_BOT_TOKEN # "" /\ githubReady
  /\ res[1].status = 401

\* C3: a dispatch call or a variable-store call is made, and a command handler
\* runs, only for an Update whose chat is in the allowlist or while the
\* allowlist is empty.
Thm_C3_OnlyAuthorizedChatsAct ==
  \/ pc = "idle"
  \/ (HasChat /\ Authorized)
  \/ /\ pc \in {"preRouting", "structural", "authorization", "responded"}
     /\ updDispatches = 0
     /\ \A i \in DOMAIN calls : IsDenialReply(calls[i])

\* a chat outside a non-empty allowlist asked for a profile write: refused
Wit_C3_UnauthorizedProfileWrite ==
  /\ pc = "responded" /\ PassedPreRouting /\ HasChat /\ ~Authorized
  /\ req.body.text = CmdArg(W_profile, W_balanced)
  /\ githubReady
  /\ Len(calls) = 1

\* C4: an Update that reaches the authorization gate from a chat outside a
\* non-empty allowlist causes exactly one outbound call, the denial reply to
\* that chat, and the response 200 { ok: true, denied: true }, also when the
\* denial reply fails.
Thm_C4_DenialPath ==
  (PassedPreRouting /\ ~Ignorable /\ ~Authorized) =>
     /\ pc \in {"preRouting", "structural", "authorization", "responded"}
     /\ pc # "responded" => calls = <<>> /\ res = <<>>
     /\ pc = "responded" =>
          /\ Len(calls) = 1
          /\ IsDenialReply(calls[1])
          /\ calls[1].chat_id = req.body.chat
          /\ res = <<[status |-> 200, body |-> [ok |-> TRUE, denied |-> TRUE]]>>

\* the denial reply itself failed
Wit_C4_DenialReplyFailed ==
  /\ pc = "responded" /\ PassedPreRouting /\ ~Ignorable /\ ~Authorized
  /\ calls[1].outcome = "http_error"
  /\ res[1].body = [ok |-> TRUE, denied |-> TRUE]

\* C5: an Update that reaches the structural gate with no chat identifier, or
\* with a trimmed text that does not begin with "/", is answered 200 with
\* ignored: true and causes no outbound call, whatever the allowlist.
Thm_C5_StructuralGate ==
  (PassedPreRouting /\ Ignorable) =>
     /\ calls = <<>>
     /\ updDispatches = 0
     /\ pc \in {"preRouting", "structural", "responded"}
     /\ pc = "responded" =>
          res = <<[status |-> 200, body |-> [ok |-> TRUE, ignored |-> TRUE]]>>

\* plain text from a chat outside a non-empty allowlist: ignored, not denied
Wit_C5_IgnoredDespiteAllowlist ==
  /\ pc = "responded" /\ PassedPreRouting /\ Ignorable
  /\ HasChat /\ ~Authorized
  /\ res[1].body = [ok |-> TRUE, ignored |-> TRUE]

\* C6: one invocation attempts at most one dispatch call.
Thm_C6_AtMostOneDispatch ==
  Cardinality(CallsOfKind("dispatch")) <= 1

\* the one dispatch failed and so did the error reply; no second dispatch
Wit_C6_FailedDispatchNotRetried ==
  /\ pc = "responded"
  /\ Len(calls) = 2
  /\ calls[1].kind = "dispatch" /\ calls[1].outcome = "network_error"
  /\ calls[2].outcome = "http_error"
  /\ req.body.text = Cmd(W_smoke)

\* C7 as stated: every Update that is not structurally ignorable gets exactly
\* one reply send, also when a call fails.
Cex_C7_ExactlyOneReply ==
  (pc = "responded" /\ PassedPreRouting /\ ~Ignorable) =>
     Cardinality(CallsOfKind("sendMessage")) = 1

\* C7 amended: an Update that passed the pre-routing gates and is not
\* structurally ignorable gets at least one reply send and at most two: exactly
\* one, unless the reply send of the command handler itself fails, and then
\* exactly one more, the error reply.
Thm_C7_OneReplyOrErrorReplyAfterFailedReply ==
  (pc = "responded" /\ PassedPreRouting /\ ~Ignorable) =>
     LET sends == CallsOfKind("sendMessage")
         handlerReplyFailed ==
           \E i \in sends :
              ~IsDenialReply(calls[i]) /\ ~IsErrorReply(calls[i]) /\ ~Succeeded(calls[i])
     IN  /\ Cardinality(sends) = (IF handlerReplyFailed THEN 2 ELSE 1)
         /\ handlerReplyFailed =>
              /\ IsErrorReply(calls[Len(calls)])
              /\ ~Succeeded(calls[Len(calls) - 1])
              /\ calls[Len(calls) - 1].kind = "sendMessage"

\* a dispatch went through, its confirmation failed, the error reply was sent
Wit_C7_ConfirmationFailedThenErrorReply ==
  /\ pc = "responded" /\ PassedPreRouting /\ ~Ignorable
  /\ Len(calls) = 3
  /\ calls[1].kind = "dispatch" /\ calls[1].outcome = "ok"
  /\ calls[2].kind = "sendMessage" /\ calls[2].outcome = "http_error"
  /\ IsErrorReply(calls[3])

\* C8: when a call made inside a command handler raises, the error is caught,
\* exactly one error reply carrying its message is attempted to the same chat,
\* a failure of that reply is discarded, and the invocation ends with exactly
\* one response, 200 with ok: false and the message.
Thm_C8_HandlerErrorPath ==
  RaisedCalls # {} =>
     LET i == CHOOSE j \in RaisedCalls : TRUE
     IN  /\ Cardinality(RaisedCalls) = 1
         /\ err = RaisedMessage(calls[i])
         /\ \/ pc = "catch" /\ res = <<>> /\ i = Len(calls)
            \/ /\ pc = "responded"
               /\ i = Len(calls) - 1
               /\ IsErrorReply(calls[Len(calls)])
               /\ calls[Len(calls)].text.details = err
               /\ calls[Len(calls)].chat_id = req.body.chat
               /\ Cardinality({j \in DOMAIN calls : IsErrorReply(calls[j])}) = 1
               /\ res = <<[status |-> 200, body |-> [ok |-> FALSE, error |-> err]]>>

\* the POST-create of a profile write failed and the error reply failed too
Wit_C8_CreateFailedReplyFailed ==
  /\ pc = "responded"
  /\ Len(calls) = 3
  /\ calls[2].kind = "variable" /\ calls[2].method = "POST"
  /\ calls[2].outcome = "http_error"
  /\ IsErrorReply(calls[3]) /\ calls[3].outcome = "http_error"
  /\ res[1].body.ok = FALSE

\* C9: the transport redelivers only after a failure status; an Update that
\* reached the structural gate is never answered with a failure status, so it
\* is delivered once and causes at most one dispatch call.
Thm_C9_NoRedeliveryPastStructuralGate ==
  /\ updDispatches <= 1
  /\ reached =>
       /\ deliveries = 1
       /\ \A i \in DOMAIN res : ~IsFailure(res[i].status)

\* a dispatch was accepted, the confirmation and the error reply both failed:
\* the Update is acknowledged and the transport has nothing to redeliver
Wit_C9_FailureReportedInBand ==
  /\ pc = "responded" /\ reached /\ updDispatches = 1
  /\ Len(calls) = 3
  /\ calls[2].outcome = "network_error" /\ calls[3].outcome = "network_error"
  /\ res[1].body.ok = FALSE
  /\ ~ENABLED Redeliver

\* C10: /scan with the dispatch parameters configured, from an authorized
\* chat: an argument that is one JSON object gives exactly one dispatch call
\* with command "scan" and a products list of length 1, no argument gives
\* exactly one dispatch call without a products field; the dispatch is the
\* first call and, once it is accepted, exactly one confirmation reply follows.
ScanObjectTexts == {CmdArg(W_scan, J_object), CmdArg(W_scan, J_emptyObject)}
ScanBareTexts   == {Cmd(W_scan)}
Thm_C10_ScanDispatch ==
  ( /\ pc = "responded" /\ PassedPreRouting /\ HasChat /\ Authorized
    /\ req.body.text \in ScanObjectTexts \cup ScanBareTexts
    /\ env.GITHUB_TOKEN # "" /\ env.GITHUB_OWNER # "" /\ env.GITHUB_REPO # "" ) =>
     /\ CallsOfKind("dispatch") = {1}
     /\ CallsOfKind("variable") = {}
     /\ calls[1].client_payload.command = "scan"
     /\ req.body.text \in ScanObjectTexts =>
          /\ "products" \in DOMAIN calls[1].client_payload
          /\ Len(calls[1].client_payload.products) = 1
     /\ req.body.text \in ScanBareTexts =>
          "products" \notin DOMAIN calls[1].client_payload
     /\ calls[1].outcome = "ok" =>
          /\ Len(calls) >= 2
          /\ calls[2].kind = "sendMessage"
          /\ calls[2].text.msg \in
               { "Scan accodato su GitHub Actions (n prodotti).",
                 "Scan accodato su GitHub Actions (modalita default)." }
          /\ "count" \in DOMAIN calls[2].text <=> req.body.text \in ScanObjectTexts
          /\ \A i \in 3..Len(calls) : IsErrorReply(calls[i])
          /\ calls[2].outcome = "ok" =>
               Len(calls) = 2 /\ res[1].body = [ok |-> TRUE]

\* /scan {"t":1} dispatched one product and confirmed it
Wit_C10_ObjectScanConfirmed ==
  /\ pc = "responded"
  /\ req.body.text = CmdArg(W_scan, J_object)
  /\ Len(calls) = 2
  /\ calls[1].kind = "dispatch"
  /\ Len(calls[1].client_payload.products) = 1
  /\ calls[2].outcome = "ok"
  /\ res[1].body = [ok |-> TRUE]

\* the dispatch parameters are all configured (read off the environment)
BackendsReady ==
  env.GITHUB_TOKEN # "" /\ env.GITHUB_OWNER # "" /\ env.GITHUB_REPO # ""
\* the request passed every gate before the command handlers
ReachesHandler == PassedPreRouting /\ HasChat /\ IsCommandText /\ Authorized

\* C11: /scan with a non-empty argument that is empty once the code fence is
\* stripped, is not valid JSON, or holds no object at all, is rejected: the
\* first call is the one rejection reply, no dispatch and no variable call is
\* made, and any further call is the error reply of a failed rejection reply.
ScanInvalidJsonTexts == {CmdArg(W_scan, Fence), CmdArg(W_scan, J_broken)}
ScanNoProductTexts ==
  {CmdArg(W_scan, J_noobject), CmdArg(W_scan, <<"[", "]">>), CmdArg(W_scan, <<"5">>)}
IsNormalizedProduct(p) ==
  /\ p.t = "obj"
  /\ \E i \in DOMAIN p.v :
       p.v[i].k = K_title /\ p.v[i].val.t = "str" /\ Trim(p.v[i].val.v) # <<>>
  /\ \E i \in DOMAIN p.v :
       p.v[i].k = K_price_eur /\ p.v[i].val.t = "num" /\ p.v[i].val.v > 0

\* C12: in every dispatch call whose client_payload carries products, each
\* element is an object with a non-empty string title and a finite price_eur
\* greater than zero. The router's /scan forwards any object, so this fails.
Cex_C12_DispatchedProductsNormalized ==
  \A i \in CallsOfKind("dispatch") :
     "products" \in DOMAIN calls[i].client_payload =>
        \A j \in DOMAIN calls[i].client_payload.products :
           IsNormalizedProduct(calls[i].client_payload.products[j])

\* the profile each sample /profile write asks for
ProfileSetTexts ==
  { CmdArg(W_profile, W_balanced),
    CmdArg(W_profile, <<"A","g","g","r","e","s","s","i","v","e"," ","n","o","w">>) }
RequestedProfile ==
  IF req.body.text = CmdArg(W_profile, W_balanced)
  THEN <<"b","a","l","a","n","c","e","d">>
  ELSE <<"a","g","g","r","e","s","s","i","v","e">>
RequestedBody == [name |-> "STRATEGY_PROFILE", value |-> RequestedProfile]
IsWrite(c) == c.kind = "variable" /\ c.method \in {"PATCH", "POST"}
WriteCalls == {i \in DOMAIN calls : IsWrite(calls[i])}
IsProfileSetReply(c) ==
  c.kind = "sendMessage" /\ c.text.msg = "Profilo strategia aggiornato a"

\* C13: /profile <v> with v a profile name and the dispatch parameters
\* configured: the first call is a PATCH of the variable with body
\* {name: STRATEGY_PROFILE, value: v}; a POST with the same body follows exactly
\* when the PATCH was answered 404; once a write is accepted the next call is
\* the one confirmation reply carrying v, and nothing is read or dispatched.
Thm_C13_ProfileWriteSequence ==
  ( /\ ReachesHandler /\ BackendsReady
    /\ req.body.text \in ProfileSetTexts
    /\ pc \in {"upsertCreate", "profileSetReply", "catch", "responded"} ) =>
     /\ calls[1] \in {VariableCall("PATCH", RequestedBody, o) :
                        o \in {"ok", "404", "http_error", "network_error", "lost_response"}}
     /\ CallsOfKind("dispatch") = {}
     /\ \A i \in CallsOfKind("variable") : IsWrite(calls[i])
     /\ IF calls[1].outcome = "404"
        THEN pc # "upsertCreate" =>
               /\ WriteCalls = {1, 2}
               /\ calls[2].method = "POST"
               /\ calls[2].body = RequestedBody
        ELSE WriteCalls = {1}
     /\ \A w \in WriteCalls :
          (calls[w].outcome = "ok" /\ pc # "profileSetReply") =>
             /\ Len(calls) > w
             /\ IsProfileSetReply(calls[w + 1])
             /\ calls[w + 1].text.value = RequestedProfile
             /\ calls[w + 1].chat_id = req.body.chat
             /\ \A j \in (w + 2)..Len(calls) : IsErrorReply(calls[j])
             /\ calls[w + 1].outcome = "ok" =>
                  Len(calls) = w + 1 /\ res = <<[status |-> 200, body |-> [ok |-> TRUE]]>>
     /\ \A j \in DOMAIN calls :
          IsProfileSetReply(calls[j]) => j > 1 /\ calls[j - 1].outcome = "ok"

\* "/profile Aggressive now" on an absent variable: PATCH 404, POST accepted,
\* confirmation delivered
Wit_C13_CreatedAfter404 ==
  /\ pc = "responded"
  /\ req.body.text \in ProfileSetTexts /\ req.body.text # CmdArg(W_profile, W_balanced)
  /\ Len(calls) = 3
  /\ calls[1].method = "PATCH" /\ calls[1].outcome = "404"
  /\ calls[2].method = "POST" /\ calls[2].outcome = "ok"
  /\ IsProfileSetReply(calls[3]) /\ calls[3].outcome = "ok"
  /\ calls[3].text.value = <<"a","g","g","r","e","s","s","i","v","e">>

ProfileInvalidTexts ==
  { CmdArg(W_profile, <<"b","o","g","u","s">>),
    CmdArg(W_profile, <<"B","a","l","a","n","c","e">>) }
ProfileNames ==
  { <<"c","o","n","s","e","r","v","a","t","i","v","e">>,
    <<"b","a","l","a","n","c","e","d">>,
    <<"a","g","g","r","e","s","s","i","v","e">> }

\* C14: /profile whose first token is neither show/get/status nor a profile
\* name makes no variable call and its first call is the invalid-value reply;
\* and every write call of the router carries one of conservative, balanced,
\* aggressive, so the remote variable never holds anything else.
Thm_C14_OnlyProfileNamesWritten ==
  /\ ( /\ ReachesHandler /\ BackendsReady
       /\ req.body.text \in ProfileInvalidTexts ) =>
        /\ CallsOfKind("variable") = {}
        /\ CallsOfKind("dispatch") = {}
        /\ pc \in {"catch", "responded"} =>
             /\ Len(calls) >= 1
             /\ calls[1].kind = "sendMessage"
             /\ calls[1].text.msg =
                  "Valore non valido. Usa: /profile conservative | balanced | aggressive"
             /\ \A i \in 2..Len(calls) : IsErrorReply(calls[i])
  /\ \A i \in WriteCalls :
       calls[i].body.name = "STRATEGY_PROFILE" /\ calls[i].body.value \in ProfileNames
  /\ remoteVar = <<>> \/ remoteVar \in ProfileNames

\* /profile bogus answered with the invalid-value reply while the variable
\* stays absent
Wit_C14_BogusRefused ==
  /\ pc = "responded" /\ BackendsReady
  /\ req.body.text = CmdArg(W_profile, <<"b","o","g","u","s">>)
  /\ Len(calls) = 1 /\ calls[1].outcome = "ok"
  /\ calls[1].text.msg = "Valore non valido. Usa: /profile conservative | balanced | aggressive"
  /\ remoteVar = <<>>

ProfileShowTexts == {Cmd(W_profile), CmdArg(W_profile, <<"S","h","o","w">>)}
\* the default profile of each sample deployment
ConfiguredDefault ==
  IF env.STRATEGY_PROFILE = <<>>
  THEN <<"b","a","l","a","n","c","e","d">>
  ELSE <<"c","o","n","s","e","r","v","a","t","i","v","e">>
IsProfileShowReply(c) ==
  c.kind = "sendMessage" /\ c.text.msg = "Profilo strategia attivo:"

\* C15: /profile with no argument or with show: the first call is the one GET
\* of the variable and no PATCH or POST is made; a 200 is followed by the
\* reply carrying the variable's value, a 404 by the reply carrying the
\* configured default (no error raised), and any other outcome of the GET is
\* raised as an error.
Thm_C15_ProfileShow ==
  ( /\ ReachesHandler /\ BackendsReady
    /\ req.body.text \in ProfileShowTexts
    /\ pc \in {"profileShowReply", "catch", "responded"} ) =>
     /\ CallsOfKind("variable") = {1}
     /\ calls[1].method = "GET"
     /\ CallsOfKind("dispatch") = {}
     /\ IF calls[1].outcome \in {"200", "404"}
        THEN /\ pc = "profileShowReply" => err = ""
             /\ pc # "profileShowReply" =>
                  /\ Len(calls) >= 2
                  /\ IsProfileShowReply(calls[2])
                  /\ calls[2].chat_id = req.body.chat
                  /\ calls[2].text.value =
                       (IF calls[1].outcome = "200" THEN remoteVar ELSE ConfiguredDefault)
                  /\ \A j \in 3..Len(calls) : IsErrorReply(calls[j])
                  /\ calls[2].outcome = "ok" =>
                       Len(calls) = 2 /\ res = <<[status |-> 200, body |-> [ok |-> TRUE]]>>
        ELSE /\ err \in {"GitHub variable read failed: 500", "fetch failed"}
             /\ \A j \in DOMAIN calls : ~IsProfileShowReply(calls[j])
             /\ pc = "responded" =>
                  /\ Len(calls) = 2 /\ IsErrorReply(calls[2])
                  /\ res = <<[status |-> 200, body |-> [ok |-> FALSE, error |-> err]]>>

\* /profile on an absent variable in a deployment whose default is
\* " Conservative": the GET was answered 404 and the reply says conservative
Wit_C15_AbsentShowsDefault ==
  /\ pc = "responded"
  /\ req.body.text = Cmd(W_profile)
  /\ env.STRATEGY_PROFILE # <<>>
  /\ Len(calls) = 2
  /\ calls[1].kind = "variable" /\ calls[1].outcome = "404"
  /\ calls[2].text.value = <<"c","o","n","s","e","r","v","a","t","i","v","e">>
  /\ res[1].body = [ok |-> TRUE]

\* C16: the write calls of one upsert: the PATCH comes first, a POST is made
\* exactly when the PATCH was answered 404, a PATCH that failed otherwise
\* raises without a POST, a failed POST raises, and there are never more than
\* two write calls.
Thm_C16_UpsertCallSequence ==
  /\ Cardinality(WriteCalls) <= 2
  /\ \A i \in WriteCalls :
       /\ calls[i].method = "PATCH" =>
            /\ \A j \in WriteCalls : j >= i
            /\ calls[i].outcome = "404" =>
                 \/ pc = "upsertCreate" /\ i = Len(calls)
                 \/ i + 1 \in WriteCalls /\ calls[i + 1].method = "POST"
            /\ calls[i].outcome = "ok" =>
                 pc \in {"profileSetReply", "catch", "responded"} /\ WriteCalls = {i}
            /\ calls[i].outcome \notin {"ok", "404"} =>
                 /\ WriteCalls = {i}
                 /\ pc \in {"catch", "responded"}
                 /\ err \in {"GitHub variable update failed: 500", "fetch failed"}
       /\ calls[i].method = "POST" =>
            /\ i - 1 \in WriteCalls
            /\ calls[i - 1].method = "PATCH" /\ calls[i - 1].outcome = "404"
            /\ calls[i].outcome # "ok" =>
                 /\ pc \in {"catch", "responded"}
                 /\ err \in {"GitHub variable create failed: 500", "fetch failed"}

\* a PATCH answered 500 on an existing variable: the error was raised and no
\* POST was attempted
Wit_C16_PatchFailedNoCreate ==
  /\ pc = "responded"
  /\ Len(calls) = 2
  /\ IsWrite(calls[1]) /\ calls[1].method = "PATCH" /\ calls[1].outcome = "http_error"
  /\ IsErrorReply(calls[2])
  /\ err = "GitHub variable update failed: 500"
  /\ remoteVar # <<>>

\* this step made a write call
WroteNow ==
  /\ Len(calls') = Len(calls) + 1
  /\ IsWrite(calls'[Len(calls')])

\* C17: an upsert returns normally only on a write call the remote store
\* accepted, and the variable then holds the requested value; every other
\* write call either leads to the POST fallback (PATCH 404) or raises; and the
\* variable changes only in a write step, only to the requested value.
Thm_C17_UpsertOutcome ==
  [][ /\ pc' = "profileSetReply" =>
           /\ WroteNow
           /\ calls'[Len(calls')].outcome = "ok"
           /\ calls'[Len(calls')].body = RequestedBody
           /\ remoteVar' = RequestedProfile
           /\ err' = ""
      /\ (WroteNow /\ pc' # "profileSetReply") =>
           \/ /\ pc' = "upsertCreate"
              /\ calls'[Len(calls')].method = "PATCH"
              /\ calls'[Len(calls')].outcome = "404"
              /\ remoteVar' = remoteVar
           \/ /\ pc' = "catch"
              /\ calls'[Len(calls')].outcome \notin {"ok", "404"}
              /\ err' \in { "GitHub variable update failed: 500",
                            "GitHub variable create failed: 500", "fetch failed" }
      /\ remoteVar' # remoteVar =>
           /\ WroteNow
           /\ req.body.text \in ProfileSetTexts
           /\ remoteVar' = RequestedProfile
    ]_vars

\* the upsert of /profile balanced returned normally through the POST
\* fallback and the variable, absent before, holds balanced
Wit_C17_CreatedAndReturned ==
  /\ pc = "profileSetReply"
  /\ req.body.text = CmdArg(W_profile, W_balanced)
  /\ Len(calls) = 2
  /\ calls[1].outcome = "404"
  /\ calls[2].method = "POST" /\ calls[2].outcome = "ok"
  /\ remoteVar = <<"b","a","l","a","n","c","e","d">>

WritersDone == \A i \in Writers : writers[i].pc \in {"returned", "raised"}

\* C18: for every interleaving of concurrent upserts against a variable that
\* may be absent at first, each upsert completes without error and the
\* variable ends holding one of the requested values. Two upserts that both
\* meet the 404 both POST, and the second POST is refused: this fails.
Cex_C18_ConcurrentUpsertsSucceed ==
  /\ \A i \in Writers : writers[i].pc # "raised"
  /\ WritersDone => remoteVar \in {writers[i].value : i \in Writers}

\* C19: concurrent profile writes are not ordered or excluded by the router:
\* whenever the remote store has applied a write, the variable holds the value
\* requested by the invocation whose write was applied last, whatever the
\* order in which the invocations started or finished.
Thm_C19_LastWriteWins ==
  /\ applied = <<>> => remoteVar \in {<<>>, <<"a","g","g","r","e","s","s","i","v","e">>}
  /\ applied # <<>> =>
       /\ remoteVar = writers[applied[Len(applied)]].value
       /\ \A k \in DOMAIN applied :
            LET w == writers[applied[k]]
            IN  /\ w.pc = "returned"
                /\ w.calls[Len(w.calls)].outcome = "ok"
                /\ w.calls[Len(w.calls)].body.value = w.value

\* both writers met the 404; writer 2 then created the variable while writer 1
\* was still between its PATCH and its POST: the variable holds writer 2's value
Wit_C19_OverlappingWrites ==
  /\ writers[1].pc = "create"
  /\ writers[2].pc = "returned"
  /\ Len(writers[2].calls) = 2
  /\ applied = <<2>>
  /\ writers[1].value # writers[2].value
  /\ remoteVar = writers[2].value

\* sample texts of the five commands that need the dispatch parameters
ReadinessTexts ==
  { Cmd(W_profile), CmdArg(W_profile, W_balanced),
    CmdArg(W_profile, <<"b","o","g","u","s">>),
    Cmd(W_scan), CmdArg(W_scan, J_object), CmdArg(W_scan, J_broken),
    Cmd(W_smoke), CmdArg(W_smoke, J_object),
    Cmd(W_status),
    Cmd(W_last), CmdArg(W_last, <<"3">>) }

LocalTexts ==
  { Cmd(W_start), Cmd(W_help), Cmd(W_id), Cmd(W_rules),
    <<" ">> \o Cmd(W_help) \o <<" ", "\n">>,
    Cmd(<<"H","E","L","P","@","b","o","t">>) }
LocalReplyOf(t) ==
  CASE t = Cmd(W_start) ->
         [msg |-> "Bot operativo.",
          help |-> "Tech_Sniper_IT comandi: /start /help /id /rules /scan /smoke /status /last /profile"]
    [] t = Cmd(W_id)    -> [msg |-> "chat_id:", value |-> req.body.chat[1]]
    [] t = Cmd(W_rules) -> [msg |-> "Regole attive: ..."]
    [] OTHER ->
         [msg |-> "Tech_Sniper_IT comandi: /start /help /id /rules /scan /smoke /status /last /profile"]

UnknownTexts == { Cmd(<<"b","o","g","u","s">>), <<"/">>, <<"/","@","b","o","t">> }

\* C22: a command name outside the fixed set gets the "not recognized" reply
\* with the help text as the first call, no dispatch and no variable call, and
\* every response is 200.
Thm_C22_UnknownCommand ==
  (ReachesHandler /\ req.body.text \in UnknownTexts) =>
     /\ CallsOfKind("dispatch") = {}
     /\ CallsOfKind("variable") = {}
     /\ updDispatches = 0
     /\ pc \in {"preRouting", "structural", "authorization", "handler", "catch", "responded"}
     /\ pc \in {"catch", "responded"} =>
          /\ Len(calls) >= 1
          /\ calls[1].kind = "sendMessage"
          /\ calls[1].chat_id = req.body.chat
          /\ calls[1].text =
               [msg |-> "Comando non riconosciuto.",
                help |-> "Tech_Sniper_IT comandi: /start /help /id /rules /scan /smoke /status /last /profile"]
          /\ \A i \in 2..Len(calls) : IsErrorReply(calls[i])
          /\ calls[1].outcome = "ok" => Len(calls) = 1
     /\ pc = "responded" =>
          /\ Len(res) = 1 /\ res[1].status = 200
          /\ res[1].body.ok = (calls[1].outcome = "ok")

\* /bogus answered with the "not recognized" reply and acknowledged
Wit_C22_BogusNotRecognized ==
  /\ pc = "responded"
  /\ req.body.text = Cmd(<<"b","o","g","u","s">>)
  /\ Len(calls) = 1 /\ calls[1].outcome = "ok"
  /\ calls[1].text.msg = "Comando non riconosciuto."
  /\ res = <<[status |-> 200, body |-> [ok |-> TRUE]]>>

\* the limit each sample /last text asks for, clamped by hand
LastTexts ==
  { Cmd(W_last), CmdArg(W_last, <<"3">>), CmdArg(W_last, <<"0">>),
    CmdArg(W_last, <<"-","2">>), CmdArg(W_last, <<"9","9">>),
    CmdArg(W_last, <<"a","b","c">>), CmdArg(W_last, <<"7","x">>) }
ExpectedLimit(t) ==
  CASE t = Cmd(W_last)                       -> 5
    [] t = CmdArg(W_last, <<"3">>)           -> 3
    [] t = CmdArg(W_last, <<"0">>)           -> 1
    [] t = CmdArg(W_last, <<"-","2">>)       -> 1
    [] t = CmdArg(W_last, <<"9","9">>)       -> 10
    [] t = CmdArg(W_last, <<"a","b","c">>)   -> 5
    [] t = CmdArg(W_last, <<"7","x">>)       -> 7

SmokeTexts == { Cmd(W_smoke), CmdArg(W_smoke, J_object) }

\* C24: /smoke with the dispatch parameters configured makes exactly one
\* dispatch call, the first call, whose payload has command "scan", mode
\* "smoke" and the fixed list of three products, with or without an argument.
Thm_C24_SmokeFixedPayload ==
  ( /\ ReachesHandler /\ BackendsReady
    /\ req.body.text \in SmokeTexts
    /\ pc \in {"smokeConfirm", "catch", "responded"} ) =>
     /\ CallsOfKind("dispatch") = {1}
     /\ CallsOfKind("variable") = {}
     /\ calls[1].client_payload.command = "scan"
     /\ "mode" \in DOMAIN calls[1].client_payload
     /\ calls[1].client_payload.mode = "smoke"
     /\ calls[1].client_payload.products = SmokeProducts
     /\ Len(calls[1].client_payload.products) = 3
     /\ \A j \in 1..3 : IsNormalizedProduct(calls[1].client_payload.products[j])

\* /smoke {"t":1} dispatched the fixed list, not the argument
Wit_C24_ArgumentIgnored ==
  /\ pc = "responded"
  /\ req.body.text = CmdArg(W_smoke, J_object)
  /\ Len(calls) = 2
  /\ calls[1].kind = "dispatch" /\ calls[1].outcome = "ok"
  /\ calls[1].client_payload.mode = "smoke"
  /\ Len(calls[1].client_payload.products) = 3
  /\ calls[2].outcome = "ok"

\* ----------------------------------------- claims on the trigger endpoint
\* what the request and the deployment of the scan endpoint say
ScanIsPost == scanReq.method = "POST"
ScanSecretConfigured == scanEnv.SCAN_SECRET \in { <<"k","1">>, <<" ","k","1"," ">> }
ScanAuthenticated ==
  ScanSecretConfigured /\ scanReq.authorization = <<"B","e","a","r","e","r"," ","k","1">>
ScanBackendsReady ==
  scanEnv.GITHUB_TOKEN # "" /\ scanEnv.GITHUB_OWNER # "" /\ scanEnv.GITHUB_REPO # ""

\* C25: with the trigger secret unset or blank, every POST is answered 500
\* and makes no dispatch call, whatever its header and body. The handler of
\* src/api/scan.js skips the comparison when the secret is unset: this fails.
Cex_C25_FailsClosedWithoutSecret ==
  (ScanIsPost /\ ~ScanSecretConfigured) =>
     /\ scanCalls = <<>>
     /\ scanPc = "responded" =>
          /\ Len(scanRes) = 1
          /\ scanRes[1].status = 500
          /\ scanRes[1].body.ok = FALSE

\* C26: with the secret configured, a POST whose Authorization header is
\* absent or differs from "Bearer <secret>" is answered 401 with ok: false and
\* makes no dispatch call.
Thm_C26_BearerRequired ==
  (ScanIsPost /\ ScanSecretConfigured /\ ~ScanAuthenticated) =>
     /\ scanCalls = <<>>
     /\ scanPc = "responded" =>
          scanRes = <<[status |-> 401, body |-> [ok |-> FALSE, error |-> "Unauthorized"]]>>

\* a well-formed batch sent with the wrong secret to a complete deployment
Wit_C26_WrongSecretRejected ==
  /\ scanPc = "responded" /\ ScanIsPost /\ ScanBackendsReady
  /\ scanEnv.SCAN_SECRET = <<"k","1">>
  /\ scanReq.authorization = <<"B","e","a","r","e","r"," ","k","2">>
  /\ scanReq.body = Body(JArr(<<P_valid>>))
  /\ scanRes[1].status = 401

\* the sample bodies that hold no valid product
ZeroProductBodies ==
  { JUndefined,
    JObj(<<>>),
    JStr(<<"x">>),
    JObj(<<F(K_category, JStr(<<"c">>))>>),
    Body(JArr(<<>>)),
    Body(JArr(<<P_titleOnly>>)),
    Body(JArr(<<P_zero, P_infinite, P_numberTitle, P_negative, P_blankTitle>>)),
    Body(P_blankTitle),
    Body(JNum(3)),
    P_titleOnly }

\* C27: an authenticated POST, the dispatch parameters configured, whose body
\* holds no valid product (no products field, an empty list, or only items
\* without a non-empty title or a finite positive price) is answered 400 and
\* makes no dispatch call.
Thm_C27_NoValidProductsRejected ==
  ( /\ ScanIsPost /\ ScanAuthenticated /\ ScanBackendsReady
    /\ scanReq.body \in ZeroProductBodies ) =>
     /\ scanCalls = <<>>
     /\ scanPc = "responded" =>
          scanRes = <<[status |-> 400,
                       body |-> [ok |-> FALSE, error |-> "No valid products supplied"]]>>

\* a list of five items, each invalid in its own way (price 0, price
\* Infinity, numeric title, negative price, blank title), answered 400
Wit_C27_InvalidItemsRejected ==
  /\ scanPc = "responded" /\ ScanAuthenticated /\ ScanBackendsReady
  /\ scanReq.body = Body(JArr(<<P_zero, P_infinite, P_numberTitle, P_negative, P_blankTitle>>))
  /\ scanRes[1].status = 400
  /\ scanCalls = <<>>

\* the normalized products, written out by hand
\* {"title":"A","price":"7","price_eur":7}
N_padded    == JObj(<<F(K_title, JStr(<<"A">>)), F(K_price, JStr(<<"7">>)), F(K_price_eur, JNum(7))>>)
\* {"price_eur":9,"title":"A","price":9}
N_nullPrice == JObj(<<F(K_price_eur, JNum(9)), F(K_title, JStr(<<"A">>)), F(K_price, JNum(9))>>)

ValidProductBodies ==
  { Body(JArr(<<P_valid>>)),
    Body(JArr(<<P_zero, P_padded, JNum(1), JNull, P_valid, P_wordPrice>>)),
    Body(P_padded),
    P_nullPrice }
\* the valid normalized products of each sample body, in input order
ExpectedProducts(b) ==
  CASE b = Body(JArr(<<P_valid>>)) -> <<P_valid>>
    [] b = Body(JArr(<<P_zero, P_padded, JNum(1), JNull, P_valid, P_wordPrice>>)) ->
         <<N_padded, P_valid>>
    [] b = Body(P_padded) -> <<N_padded>>
    [] b = P_nullPrice    -> <<N_nullPrice>>

\* C28: an authenticated POST, the dispatch parameters configured, with at
\* least one valid product makes exactly one dispatch call whose products are
\* the valid normalized products in input order; the dispatch accepted, the
\* answer is 202 with product_count the length of that list.
Thm_C28_ValidProductsDispatched ==
  ( /\ ScanIsPost /\ ScanAuthenticated /\ ScanBackendsReady
    /\ scanReq.body \in ValidProductBodies
    /\ scanPc = "responded" ) =>
     /\ Len(scanCalls) = 1
     /\ scanCalls[1].kind = "dispatch"
     /\ scanCalls[1].client_payload =
          [source |-> "vercel_scan_api", command |-> "scan",
           products |-> ExpectedProducts(scanReq.body)]
     /\ Len(scanRes) = 1
     /\ scanCalls[1].outcome = "ok" =>
          scanRes[1] = [status |-> 202,
                        body |-> [ok |-> TRUE, queued |-> TRUE,
                                  product_count |-> Len(ExpectedProducts(scanReq.body))]]

\* six items of which two are valid: both dispatched, in input order, the
\* padded title trimmed and the string price coerced; answered 202 with 2
Wit_C28_InvalidItemsDropped ==
  /\ scanPc = "responded"
  /\ scanReq.body = Body(JArr(<<P_zero, P_padded, JNum(1), JNull, P_valid, P_wordPrice>>))
  /\ Len(scanCalls) = 1 /\ scanCalls[1].outcome = "ok"
  /\ scanCalls[1].client_payload.products = <<N_padded, P_valid>>
  /\ scanRes[1].status = 202
  /\ scanRes[1].body.product_count = 2

\* C29 as stated: every response status of the trigger endpoint is one of
\* 401, 400, 500 and 202. A request that is not a POST is answered 405.
Cex_C29_FourStatuses ==
  \A i \in DOMAIN scanRes : scanRes[i].status \in {401, 400, 500, 202}

\* C29: the trigger endpoint never answers 200: a request that is not a POST
\* is answered 405, a POST with 401, 400, 500 or 202; 202 is sent only after
\* an accepted dispatch, and a failed dispatch is answered 500 with ok: false
\* and the message of the failure.
Thm_C29_FailuresNotAcknowledged ==
  /\ Len(scanRes) <= 1
  /\ Len(scanCalls) <= 1
  /\ \A i \in DOMAIN scanRes :
       /\ scanRes[i].status \in {405, 401, 400, 500, 202}
       /\ scanRes[i].status = 405 <=> ~ScanIsPost
       /\ scanRes[i].status = 202 <=> (scanCalls # <<>> /\ scanCalls[1].outcome = "ok")
       /\ scanRes[i].body.ok = (scanRes[i].status = 202)
  /\ (scanCalls # <<>> /\ scanCalls[1].outcome # "ok") =>
       scanRes = <<[status |-> 500,
                    body |-> [ok |-> FALSE,
                              error |-> CASE scanCalls[1].outcome = "http_error" ->
                                               "GitHub dispatch failed: 500"
                                          [] scanCalls[1].outcome = "http_422" ->
                                               "GitHub dispatch failed: 422 Validation Failed"
                                          [] OTHER -> "fetch failed"]]>>

\* the dispatch of a valid batch was answered 500 by the backend and the
\* endpoint answered 500 with that message
Wit_C29_DispatchFailureReported ==
  /\ scanPc = "responded"
  /\ Len(scanCalls) = 1 /\ scanCalls[1].outcome = "http_error"
  /\ scanRes[1].status = 500
  /\ scanRes[1].body.error = "GitHub dispatch failed: 500"

\* the objects the normalizer accepts in each sample body, in input order,
\* with the price each one coerces to
AcceptedInputs(b) ==
  CASE b = Body(JArr(<<P_valid>>)) -> <<P_valid>>
    [] b = Body(JArr(<<P_zero, P_padded, JNum(1), JNull, P_valid, P_wordPrice>>)) ->
         <<P_padded, P_valid>>
    [] b = Body(P_padded) -> <<P_padded>>
    [] b = P_nullPrice    -> <<P_nullPrice>>
CoercedPrice(p) ==
  CASE p = P_valid     -> 5
    [] p = P_padded    -> 7
    [] p = P_nullPrice -> 9
KeysOf(o) == {o.v[i].k : i \in DOMAIN o.v}
\* the dispatch of the scan endpoint carries one product per accepted input
ScanDispatched ==
  /\ ScanIsPost /\ scanReq.body \in ValidProductBodies
  /\ Len(scanCalls) = 1
  /\ Len(scanCalls[1].client_payload.products) = Len(AcceptedInputs(scanReq.body))

\* C30 as stated: every accepted product is dispatched with all of its
\* original fields as they were, price_eur alone being replaced by the coerced
\* number. The title is replaced as well, by the trimmed title.
Cex_C30_AllFieldsPreserved ==
  ScanDispatched =>
     \A j \in DOMAIN AcceptedInputs(scanReq.body) :
        LET p == AcceptedInputs(scanReq.body)[j]
            n == scanCalls[1].client_payload.products[j]
        IN  /\ \A i \in DOMAIN p.v :
                 p.v[i].k # K_price_eur => GetField(n, p.v[i].k) = p.v[i].val
            /\ GetField(n, K_price_eur) = JNum(CoercedPrice(p))

\* C30: every accepted product is dispatched with each original field other
\* than title and price_eur as it was, no field added but price_eur, the title
\* replaced by the trimmed title and price_eur by the coerced number.
Thm_C30_FieldsPreservedTitleTrimmed ==
  /\ (ScanIsPost /\ scanReq.body \in ValidProductBodies /\ scanCalls # <<>>) => ScanDispatched
  /\ ScanDispatched =>
       \A j \in DOMAIN AcceptedInputs(scanReq.body) :
          LET p == AcceptedInputs(scanReq.body)[j]
              n == scanCalls[1].client_payload.products[j]
          IN  /\ n.t = "obj"
              /\ KeysOf(n) = KeysOf(p) \cup {K_price_eur}
              /\ \A i \in DOMAIN p.v :
                   p.v[i].k \notin {K_price_eur, K_title} =>
                      GetField(n, p.v[i].k) = p.v[i].val
              /\ GetField(n, K_title) = JStr(<<"A">>)
              /\ GetField(n, K_price_eur) = JNum(CoercedPrice(p))

\* {"title":" A ","price":"7"} sent as the products object: dispatched with
\* title "A", price "7" kept and price_eur 7 added
Wit_C30_PaddedTitleTrimmed ==
  /\ scanPc = "responded"
  /\ scanReq.body = Body(P_padded)
  /\ Len(scanCalls) = 1
  /\ GetField(scanCalls[1].client_payload.products[1], K_title) = JStr(<<"A">>)
  /\ GetField(scanCalls[1].client_payload.products[1], K_price) = JStr(<<"7">>)
  /\ GetField(scanCalls[1].client_payload.products[1], K_price_eur) = JNum(7)

\* ------------------------------------------------ claims on statelessness
\* a call without the response it met
RequestOf(c) == [f \in DOMAIN c \ {"outcome"} |-> c[f]]
\* the first n calls of two invocations met the same responses
SameResponses(a, b, n) ==
  \A i \in 1..n : a[i].outcome = b[i].outcome
DispatchesIn(cs) == Cardinality({i \in DOMAIN cs : cs[i].kind = "dispatch"})
RECURSIVE DispatchesOfRuns(_)
DispatchesOfRuns(runs) ==
  IF runs = <<>> THEN 0
  ELSE DispatchesIn(Head(runs).calls) + DispatchesOfRuns(Tail(runs))

Thm_C32_NoSecretNoGate ==
  (IsPost /\ env.TELEGRAM_WEBHOOK_SECRET_TOKEN = "") =>
     /\ \A i \in DOMAIN res : res[i].status # 401
     /\ pc \notin {"idle", "preRouting"} =>
          IF env.TELEGRAM_BOT_TOKEN = ""
          THEN /\ ~reached
               /\ res = <<[status |-> 500,
                            body |-> [ok |-> FALSE, error |-> "Missing env configuration"]]>>
          ELSE /\ pc = "structural" \/ reached
               /\ \A i \in DOMAIN res : res[i].status = 200

\* a /status carrying a secret header nobody configured is dispatched
Wit_C32_UnexpectedHeaderAccepted ==
  /\ pc = "responded" /\ IsPost
  /\ env.TELEGRAM_WEBHOOK_SECRET_TOKEN = ""
  /\ req.secretHeader = "wrong"
  /\ req.body.text = Cmd(W_status)
  /\ Len(calls) = 2 /\ calls[1].kind = "dispatch"
  /\ res = <<[status |-> 200, body |-> [ok |-> TRUE]]>>

\* C33: the gates of the router are passed in the order method, secret, bot
\* credential, structure, allowlist: a request that is not a POST is answered
\* 405 whatever its secret; a POST with a secret mismatch 401 whatever the bot
\* credential; a POST past the secret check without bot credential 500 whatever
\* the Update; an ignorable Update past these is ignored, without a denial
\* reply, whatever the allowlist. No call is made before the structural gate.
Thm_C33_GateOrder ==
  /\ pc \in {"preRouting", "structural"} => calls = <<>>
  /\ pc = "responded" =>
       /\ Len(res) = 1
       /\ ~IsPost =>
            res[1].status = 405 /\ calls = <<>> /\ ~reached
       /\ (IsPost /\ ~SecretOk) =>
            res[1].status = 401 /\ calls = <<>> /\ ~reached
       /\ (IsPost /\ SecretOk /\ ~BotOk) =>
            res[1].status = 500 /\ calls = <<>> /\ ~reached
       /\ (PassedPreRouting /\ Ignorable) =>
            /\ res[1] = [status |-> 200, body |-> [ok |-> TRUE, ignored |-> TRUE]]
            /\ calls = <<>>
            /\ reached
       /\ (PassedPreRouting /\ ~Ignorable /\ ~Authorized) =>
            /\ res[1] = [status |-> 200, body |-> [ok |-> TRUE, denied |-> TRUE]]
            /\ Len(calls) = 1 /\ IsDenialReply(calls[1])
       /\ (PassedPreRouting /\ ~Ignorable /\ Authorized) =>
            /\ res[1].status = 200
            /\ "denied" \notin DOMAIN res[1].body
            /\ "ignored" \notin DOMAIN res[1].body
            /\ calls # <<>>

\* a command from a chat outside the allowlist, sent with a wrong secret to a
\* deployment without bot credential: answered 401, not 500, not denied
Wit_C33_SecretBeforeCredential ==
  /\ pc = "responded" /\ IsPost /\ ~SecretOk /\ ~BotOk
  /\ HasChat /\ ~Authorized /\ IsCommandText
  /\ res[1].status = 401

\* --------------------------------------- claims on effects and their replies
ConfirmationMessages ==
  { "Scan accodato su GitHub Actions (n prodotti).",
    "Scan accodato su GitHub Actions (modalita default).",
    "Smoke test accodato su GitHub Actions (n prodotti).",
    "Richiesta status accodata su GitHub Actions.",
    "Richiesta ultime opportunita (n) accodata su GitHub Actions." }
IsConfirmation(c) == c.kind = "sendMessage" /\ c.text.msg \in ConfirmationMessages
\* the texts of /scan, /smoke, /status and /last whose argument is accepted
DispatchTexts ==
  { Cmd(W_scan), CmdArg(W_scan, J_object), CmdArg(W_scan, J_emptyObject),
    CmdArg(W_scan, J_array2), CmdArg(W_scan, J_mixed), CmdArg(W_scan, J_fenced),
    Cmd(W_smoke), CmdArg(W_smoke, J_object),
    Cmd(W_status),
    Cmd(W_last), CmdArg(W_last, <<"3">>), CmdArg(W_last, <<"0">>),
    CmdArg(W_last, <<"-","2">>), CmdArg(W_last, <<"9","9">>),
    CmdArg(W_last, <<"a","b","c">>), CmdArg(W_last, <<"7","x">>) }

\* C34: a dispatch call is the first call of its invocation; a confirmation
\* reply is the second call and follows an accepted dispatch; after a failed
\* dispatch the only further call is the error reply; and an accepted dispatch
\* of /scan, /smoke, /status or /last is followed by its confirmation.
Thm_C34_ConfirmationAfterDispatch ==
  /\ \A i \in DOMAIN calls :
       /\ calls[i].kind = "dispatch" => i = 1
       /\ IsConfirmation(calls[i]) =>
            /\ i = 2
            /\ calls[1].kind = "dispatch"
            /\ calls[1].outcome = "ok"
       /\ (i > 1 /\ calls[1].kind = "dispatch" /\ calls[1].outcome # "ok") =>
            i = 2 /\ IsErrorReply(calls[i])
  /\ ( /\ pc = "responded" /\ ReachesHandler /\ BackendsReady
       /\ req.body.text \in DispatchTexts ) =>
       /\ calls[1].kind = "dispatch"
       /\ Len(calls) >= 2
       /\ calls[1].outcome = "ok" <=> IsConfirmation(calls[2])

\* the dispatch of /last 3 failed: the error reply is the only reply
Wit_C34_NoConfirmationAfterFailure ==
  /\ pc = "responded"
  /\ req.body.text = CmdArg(W_last, <<"3">>)
  /\ Len(calls) = 2
  /\ calls[1].kind = "dispatch" /\ calls[1].outcome = "http_error"
  /\ IsErrorReply(calls[2]) /\ calls[2].outcome = "ok"
  /\ res[1].body.ok = FALSE

IsSideEffect(c) == c.kind = "dispatch" \/ IsWrite(c)

\* C35: for /scan, /smoke, /status, /last and a /profile write, the backends
\* ready and the argument valid: a response with ok: true means that every call
\* succeeded, the last but one being the accepted dispatch or write and the last
\* the delivered confirmation; when the dispatch or write was accepted and the
\* confirmation failed, no further dispatch or write is made (a written profile
\* stays written), the error reply is the only further call, and the response
\* is 200 with ok: false and the error of the confirmation.
Thm_C35_OkMeansEffectAndConfirmation ==
  ( /\ pc = "responded" /\ ReachesHandler /\ BackendsReady
    /\ req.body.text \in DispatchTexts \cup ProfileSetTexts ) =>
     LET n == Len(calls)
         written == req.body.text \in ProfileSetTexts => remoteVar = RequestedProfile
     IN  /\ Len(res) = 1 /\ res[1].status = 200
         /\ n >= 2
         /\ res[1].body.ok = TRUE =>
              /\ \A i \in DOMAIN calls : Succeeded(calls[i])
              /\ IsSideEffect(calls[n - 1]) /\ calls[n - 1].outcome = "ok"
              /\ calls[n].kind = "sendMessage" /\ ~IsErrorReply(calls[n])
              /\ calls[n].outcome = "ok"
              /\ written
         /\ \A i \in 1..(n - 1) :
              ( /\ IsSideEffect(calls[i]) /\ calls[i].outcome = "ok"
                /\ calls[i + 1].kind = "sendMessage" /\ calls[i + 1].outcome # "ok" ) =>
                 /\ n = i + 2
                 /\ IsErrorReply(calls[n])
                 /\ written
                 /\ res[1].body = [ok |-> FALSE, error |-> RaisedMessage(calls[i + 1])]

\* the profile was created, its confirmation failed: the variable keeps the
\* value and the response is ok: false
Wit_C35_WrittenButNotConfirmed ==
  /\ pc = "responded"
  /\ req.body.text = CmdArg(W_profile, W_balanced)
  /\ Len(calls) = 4
  /\ calls[2].kind = "variable" /\ calls[2].method = "POST" /\ calls[2].outcome = "ok"
  /\ calls[3].kind = "sendMessage" /\ calls[3].outcome = "http_error"
  /\ IsErrorReply(calls[4])
  /\ remoteVar = <<"b","a","l","a","n","c","e","d">>
  /\ res = <<[status |-> 200,
              body |-> [ok |-> FALSE, error |-> "Telegram sendMessage failed: 500"]]>>

\* ------------------------------------------- claims on the dispatch client
\* the message a failed dispatch is reported with, by the response it met
DispatchFailureText(outcome) ==
  CASE outcome = "http_error"    -> "GitHub dispatch failed: 500"
    [] outcome = "http_422"      -> "GitHub dispatch failed: 422 Validation Failed"
    [] outcome = "network_error" -> "fetch failed"

\* C36: an invocation makes at most one dispatch call, also when it fails; a
\* dispatch that met a non-success response raises an error naming the status
\* and the body text of that response, and the router puts that text into the
\* error reply and into the ok: false response body.
Thm_C36_DispatchFailureReported ==
  /\ Cardinality(CallsOfKind("dispatch")) <= 1
  /\ \A i \in DOMAIN calls :
       (calls[i].kind = "dispatch" /\ calls[i].outcome # "ok") =>
          /\ pc \in {"catch", "responded"}
          /\ err = DispatchFailureText(calls[i].outcome)
          /\ pc = "responded" =>
               /\ Len(calls) = i + 1
               /\ IsErrorReply(calls[i + 1])
               /\ calls[i + 1].text.details = DispatchFailureText(calls[i].outcome)
               /\ res = <<[status |-> 200,
                           body |-> [ok |-> FALSE,
                                     error |-> DispatchFailureText(calls[i].outcome)]]>>

\* the dispatch of /status was answered 422 "Validation Failed": the chat and
\* the response body are told so, and no second dispatch is made
Wit_C36_RemoteStatusAndBodyReported ==
  /\ pc = "responded"
  /\ req.body.text = Cmd(W_status)
  /\ Len(calls) = 2
  /\ calls[1].kind = "dispatch" /\ calls[1].outcome = "http_422"
  /\ calls[2].text.details = "GitHub dispatch failed: 422 Validation Failed"
  /\ calls[2].outcome = "ok"
  /\ res[1].body.error = "GitHub dispatch failed: 422 Validation Failed"

\* --------------------------------- claims on the gates of the scan endpoint
\* C37: the scan endpoint makes a dispatch call only for a POST, the secret
\* configured, the bearer header matching, the three dispatch parameters
\* present and a valid product in the body; the first of these that fails names
\* the response: 405, 500 for the missing secret, 401, 500 for a missing
\* dispatch parameter whatever the products, 400.
Thm_C37_TriggerGateOrder ==
  /\ scanCalls # <<>> =>
       /\ ScanIsPost /\ ScanSecretConfigured /\ ScanAuthenticated /\ ScanBackendsReady
       /\ scanReq.body \in ValidProductBodies
  /\ (scanPc = "responded" /\ scanCalls = <<>>) =>
       /\ Len(scanRes) = 1
       /\ scanRes[1] =
            [status |-> IF ~ScanIsPost THEN 405
                        ELSE IF ~ScanSecretConfigured THEN 500
                        ELSE IF ~ScanAuthenticated THEN 401
                        ELSE IF ~ScanBackendsReady THEN 500
                        ELSE 400,
             body |-> [ok |-> FALSE,
                       error |-> IF ~ScanIsPost THEN "Method not allowed"
                                 ELSE IF ~ScanSecretConfigured
                                 THEN "Missing env configuration: SCAN_SECRET"
                                 ELSE IF ~ScanAuthenticated THEN "Unauthorized"
                                 ELSE IF ~ScanBackendsReady THEN "Missing env configuration"
                                 ELSE "No valid products supplied"]]
       /\ (ScanIsPost /\ ScanAuthenticated /\ ScanBackendsReady) =>
            scanReq.body \in ZeroProductBodies

\* an authenticated POST without any valid product, the repository parameter
\* missing: answered 500 for the configuration, not 400 for the products
Wit_C37_ConfigurationBeforeProducts ==
  /\ scanPc = "responded"
  /\ ScanIsPost /\ ScanAuthenticated
  /\ scanEnv.GITHUB_REPO = ""
  /\ scanReq.body = Body(JArr(<<P_titleOnly>>))
  /\ scanRes = <<[status |-> 500,
                  body |-> [ok |-> FALSE, error |-> "Missing env configuration"]]>>
  /\ scanCalls = <<>>

\* ------------------------------------------------ claims on command parsing
\* the sample command texts with the name and the argument each one carries
SampleParses ==
  {[text |-> Cmd(w), name |-> w, argument |-> <<>>] :
      w \in {W_start, W_help, W_id, W_rules, W_profile, W_scan, W_smoke, W_status,
             W_last, <<"b","o","g","u","s">>}}
  \cup {[text |-> CmdArg(W_profile, a), name |-> W_profile, argument |-> a] :
      a \in {<<"S","h","o","w">>, W_balanced,
             <<"A","g","g","r","e","s","s","i","v","e"," ","n","o","w">>,
             <<"b","o","g","u","s">>, <<"B","a","l","a","n","c","e">>}}
  \cup {[text |-> CmdArg(W_scan, a), name |-> W_scan, argument |-> a] :
      a \in {J_object, J_emptyObject, J_array2, J_mixed, J_fenced, J_broken,
             J_noobject, <<"[", "]">>, <<"5">>, Fence}}
  \cup {[text |-> CmdArg(W_smoke, J_object), name |-> W_smoke, argument |-> J_object]}
  \cup {[text |-> CmdArg(W_last, a), name |-> W_last, argument |-> a] :
      a \in {<<"3">>, <<"0">>, <<"-","2">>, <<"9","9">>, <<"a","b","c">>, <<"7","x">>}}
  \cup {[text |-> <<" ","/","h","e","l","p"," ","\n">>,
         name |-> W_help, argument |-> <<>>],
        [text |-> <<"/","H","E","L","P","@","b","o","t">>,
         name |-> W_help, argument |-> <<>>],
        [text |-> <<"/","S","C","A","N","@","s","o","m","e","b","o","t"," ">> \o J_object,
         name |-> W_scan, argument |-> J_object],
        [text |-> <<"/","L","a","s","t","@","B","o","t"," ","\n"," ","3">>,
         name |-> W_last, argument |-> <<"3">>]}
\* the command texts whose first token holds no name after the "/"
NamelessTexts == { <<"/">>, <<"/","@","b","o","t">> }

\* C38: for every command text the command is the first whitespace-delimited
\* token without its leading "/" and its "@..." suffix, in lower case, and the
\* argument is the trimmed remainder of the text; "/SCAN@somebot {...}" is
\* handled as "/scan {...}" is. A first token with no name after the "/"
\* selects no known command.
Thm_C38_CommandParsing ==
  /\ \A p \in SampleParses :
       req.body.text = p.text =>
          /\ command = p.name
          /\ args = p.argument
  /\ IsCommandText =>
       \/ \E p \in SampleParses : req.body.text = p.text
       \/ req.body.text \in NamelessTexts /\ command \notin KnownCommands
  /\ ( /\ pc = "responded" /\ ReachesHandler /\ BackendsReady
       /\ req.body.text =
            <<"/","S","C","A","N","@","s","o","m","e","b","o","t"," ">> \o J_object ) =>
       /\ calls[1].kind = "dispatch"
       /\ calls[1].client_payload.command = "scan"
       /\ Len(calls[1].client_payload.products) = 1

\* /SCAN@somebot {"t":1} dispatched one product and confirmed it
Wit_C38_QualifiedUpperCaseScan ==
  /\ pc = "responded"
  /\ req.body.text = <<"/","S","C","A","N","@","s","o","m","e","b","o","t"," ">> \o J_object
  /\ Len(calls) = 2
  /\ calls[1].kind = "dispatch" /\ calls[1].outcome = "ok"
  /\ Len(calls[1].client_payload.products) = 1
  /\ calls[2].text.msg = "Scan accodato su GitHub Actions (n prodotti)."
  /\ res[1].body = [ok |-> TRUE]

\* ------------------------------------------------ claims on the allowlist
\* the set each sample configuration string stands for, as strings
AllowlistStrings(raw) ==
  CASE raw = <<"4","2">> -> { <<"4","2">> }
    [] raw = <<" ","4","2"," ",","," ","7",",",",">> -> { <<"4","2">>, <<"7">> }
    [] raw = <<",", " ", ",">> -> {}
    [] raw = <<>> -> {}
\* the string form of the chat id of the Update
ChatString ==
  CASE req.body.chat = <<42>>  -> <<"4","2">>
    [] req.body.chat = <<123>> -> <<"1","2","3">>
ChatAllowed ==
  \/ AllowlistStrings(env.TELEGRAM_ALLOWED_CHAT_IDS) = {}
  \/ ChatString \in AllowlistStrings(env.TELEGRAM_ALLOWED_CHAT_IDS)

\* C39: the allowlist of an invocation is the set of the trimmed, non-empty
\* entries of the comma-separated configuration string; an Update past the
\* structural gate is denied iff that set is not empty and lacks the string
\* form of its chat id, so a string of commas and blanks allows every chat.
Thm_C39_AllowlistConstruction ==
  /\ allowedChatIds = AllowlistStrings(env.TELEGRAM_ALLOWED_CHAT_IDS)
  /\ ( /\ PassedPreRouting /\ ~Ignorable
       /\ pc \notin {"idle", "preRouting", "structural", "authorization"} ) =>
       IF ChatAllowed
       THEN /\ \A i \in DOMAIN calls : ~IsDenialReply(calls[i])
            /\ \A i \in DOMAIN res : "denied" \notin DOMAIN res[i].body
       ELSE /\ pc = "responded"
            /\ res = <<[status |-> 200, body |-> [ok |-> TRUE, denied |-> TRUE]]>>

\* with the allowlist configured as ", ," chat 123 has its /status dispatched
Wit_C39_OnlySeparatorsAllowsAll ==
  /\ pc = "responded"
  /\ env.TELEGRAM_ALLOWED_CHAT_IDS = <<",", " ", ",">>
  /\ req.body.chat = <<123>>
  /\ req.body.text = Cmd(W_status)
  /\ Len(calls) = 2 /\ calls[1].kind = "dispatch"
  /\ res = <<[status |-> 200, body |-> [ok |-> TRUE]]>>

\* C40: every reply of an invocation, be it the reply of a command, the
\* denial or the error reply, is sent to the chat id of the Update, and every
\* dispatch payload of the router has source "telegram" and the string form of
\* that chat id.
Thm_C40_SameChatThroughout ==
  \A i \in DOMAIN calls :
     /\ calls[i].kind = "sendMessage" =>
          /\ req.body.chat \in { <<42>>, <<123>> }
          /\ calls[i].chat_id = req.body.chat
     /\ calls[i].kind = "dispatch" =>
          /\ req.body.chat \in { <<42>>, <<123>> }
          /\ calls[i].client_payload.source = "telegram"
          /\ calls[i].client_payload.chat_id = ChatString

\* chat 123, user 999: the dispatch names chat "123", the failed confirmation
\* and the error reply both go to chat 123
Wit_C40_ErrorReplyToSameChat ==
  /\ pc = "responded"
  /\ req.body.chat = <<123>> /\ req.body.from = <<999>>
  /\ Len(calls) = 3
  /\ calls[1].kind = "dispatch"
  /\ calls[1].client_payload.chat_id = <<"1","2","3">>
  /\ calls[2].kind = "sendMessage" /\ calls[2].outcome # "ok"
  /\ IsErrorReply(calls[3])
  /\ calls[2].chat_id = <<123>> /\ calls[3].chat_id = <<123>>

====
